---- MODULE Spec2Model ----
(***************************************************************************)
(* Appointment-booking conversation state machine of the SMS responder     *)
(* (python_sms_responder/conversation_manager.py) together with the caller *)
(* that turns its result into a reply (python_sms_responder/llm_service.py)*)
(*                                                                         *)
(* Strings are sequences of one-character strings, so that lower-casing    *)
(* and substring containment are computed as Python computes them.         *)
(* An optional value is <<>> (None) or <<v>>.  The optional client_info    *)
(* argument and the created_at / last_activity stamps are left out: no     *)
(* handler reads them.                                                     *)
(***************************************************************************)
EXTENDS Naturals, Integers, Sequences, FiniteSets, TLC

\* ------------------------------------------------------------------ bounds
MaxAppointments == 1

\* ------------------------------------------------------------ string model
UpperToLower ==
  ("A" :> "a") @@ ("B" :> "b") @@ ("C" :> "c") @@ ("D" :> "d") @@ ("E" :> "e") @@ ("F" :> "f") @@ ("G" :> "g") @@ ("H" :> "h") @@ ("I" :> "i") @@ ("J" :> "j") @@ ("K" :> "k") @@ ("L" :> "l") @@ ("M" :> "m") @@ ("N" :> "n") @@ ("O" :> "o") @@ ("P" :> "p") @@ ("Q" :> "q") @@ ("R" :> "r") @@ ("S" :> "s") @@ ("T" :> "t") @@ ("U" :> "u") @@ ("V" :> "v") @@ ("W" :> "w") @@ ("X" :> "x") @@ ("Y" :> "y") @@ ("Z" :> "z")

LowerChar(c) == IF c \in DOMAIN UpperToLower THEN UpperToLower[c] ELSE c

\* str.lower()
Lower(s) == [i \in 1..Len(s) |-> LowerChar(s[i])]

\* Python's  pat in s  for strings
Contains(pat, s) ==
  \E i \in 0..(Len(s) - Len(pat)) : \A j \in 1..Len(pat) : s[i + j] = pat[j]

\* any(word in message_lower for word in words)
AnyWordIn(words, s) == \E k \in 1..Len(words) : Contains(words[k], s)

None == "None"

\* ------------------------------------------------- tables of the source
BookingRequestWords ==
  << <<"b", "o", "o", "k">>,
     <<"a", "p", "p", "o", "i", "n", "t", "m", "e", "n", "t">>,
     <<"s", "c", "h", "e", "d", "u", "l", "e">>,
     <<"m", "a", "k", "e", " ", "a", "p", "p", "o", "i", "n", "t", "m", "e", "n", "t">>,
     <<"b", "o", "o", "k", " ", "m", "e">>,
     <<"h", "a", "i", "r", "c", "u", "t">>,
     <<"c", "o", "l", "o", "r">>,
     <<"s", "t", "y", "l", "e">>,
     <<"s", "e", "r", "v", "i", "c", "e">>,
     <<"p", "r", "i", "c", "e">>,
     <<"c", "o", "s", "t">> >>

\* a bug _handle_greeting could have: it starts a booking on every word of
\* the classification list
GreetingBookWordsWide ==
  << <<"b", "o", "o", "k">>,
     <<"a", "p", "p", "o", "i", "n", "t", "m", "e", "n", "t">>,
     <<"s", "c", "h", "e", "d", "u", "l", "e">>,
     <<"h", "a", "i", "r", "c", "u", "t">>,
     <<"c", "o", "l", "o", "r">>,
     <<"s", "t", "y", "l", "e">>,
     <<"s", "e", "r", "v", "i", "c", "e">>,
     <<"p", "r", "i", "c", "e">>,
     <<"c", "o", "s", "t">> >>

GreetingBookWords ==
  << <<"b", "o", "o", "k">>,
     <<"a", "p", "p", "o", "i", "n", "t", "m", "e", "n", "t">>,
     <<"s", "c", "h", "e", "d", "u", "l", "e">>,
     <<"m", "a", "k", "e", " ", "a", "p", "p", "o", "i", "n", "t", "m", "e", "n", "t">>,
     <<"b", "o", "o", "k", " ", "m", "e">> >>

GreetingHelloWords ==
  << <<"h", "i">>,
     <<"h", "e", "l", "l", "o">>,
     <<"h", "e", "y">>,
     <<"g", "o", "o", "d", " ", "m", "o", "r", "n", "i", "n", "g">>,
     <<"g", "o", "o", "d", " ", "a", "f", "t", "e", "r", "n", "o", "o", "n">>,
     <<"g", "o", "o", "d", " ", "e", "v", "e", "n", "i", "n", "g">> >>

service_mapping ==
  << <<<<"h", "a", "i", "r", "c", "u", "t">>, "haircut">>,
     <<<<"c", "u", "t">>, "haircut">>,
     <<<<"h", "a", "i", "r", " ", "c", "u", "t">>, "haircut">>,
     <<<<"s", "t", "y", "l", "e">>, "haircut_and_style">>,
     <<<<"h", "a", "i", "r", "c", "u", "t", " ", "a", "n", "d", " ", "s", "t", "y", "l", "e">>, "haircut_and_style">>,
     <<<<"c", "o", "l", "o", "r">>, "color">>,
     <<<<"h", "a", "i", "r", " ", "c", "o", "l", "o", "r">>, "color">>,
     <<<<"d", "y", "e">>, "color">>,
     <<<<"h", "i", "g", "h", "l", "i", "g", "h", "t", "s">>, "highlights">>,
     <<<<"h", "i", "g", "h", "l", "i", "g", "h", "t">>, "highlights">>,
     <<<<"b", "a", "l", "a", "y", "a", "g", "e">>, "balayage">>,
     <<<<"b", "l", "o", "w", "o", "u", "t">>, "blowout">>,
     <<<<"b", "l", "o", "w", " ", "o", "u", "t">>, "blowout">>,
     <<<<"u", "p", "d", "o">>, "updo">>,
     <<<<"u", "p", " ", "d", "o">>, "updo">>,
     <<<<"u", "p", "-", "d", "o">>, "updo">>,
     <<<<"e", "x", "t", "e", "n", "s", "i", "o", "n", "s">>, "extensions">>,
     <<<<"e", "x", "t", "e", "n", "s", "i", "o", "n">>, "extensions">> >>

ServiceKeys ==
  << "haircut", "haircut_and_style", "color", "highlights", "balayage", "blowout", "updo", "extensions" >>

services ==
  ("haircut" :> [name |-> <<"H", "a", "i", "r", "c", "u", "t">>, duration |-> 60, price |-> <<"$", "4", "5">>]) @@
  ("haircut_and_style" :> [name |-> <<"H", "a", "i", "r", "c", "u", "t", " ", "&", " ", "S", "t", "y", "l", "e">>, duration |-> 90, price |-> <<"$", "6", "5">>]) @@
  ("color" :> [name |-> <<"H", "a", "i", "r", " ", "C", "o", "l", "o", "r">>, duration |-> 120, price |-> <<"$", "8", "5">>]) @@
  ("highlights" :> [name |-> <<"H", "i", "g", "h", "l", "i", "g", "h", "t", "s">>, duration |-> 150, price |-> <<"$", "9", "5">>]) @@
  ("balayage" :> [name |-> <<"B", "a", "l", "a", "y", "a", "g", "e">>, duration |-> 180, price |-> <<"$", "1", "2", "0">>]) @@
  ("blowout" :> [name |-> <<"B", "l", "o", "w", "o", "u", "t">>, duration |-> 45, price |-> <<"$", "3", "5">>]) @@
  ("updo" :> [name |-> <<"U", "p", "d", "o">>, duration |-> 60, price |-> <<"$", "5", "5">>]) @@
  ("extensions" :> [name |-> <<"H", "a", "i", "r", " ", "E", "x", "t", "e", "n", "s", "i", "o", "n", "s">>, duration |-> 120, price |-> <<"$", "1", "5", "0">>])

\* a bug the list could have: an entry left out
AffirmativeWordsShort ==
  { <<"y", "e", "s">>,
     <<"c", "o", "n", "f", "i", "r", "m">>,
     <<"b", "o", "o", "k", " ", "i", "t">>,
     <<"o", "k">> }

\* a bug _handle_confirmation could have: "no" is taken for a confirmation
AffirmativeWordsAndNo ==
  { <<"y", "e", "s">>,
     <<"c", "o", "n", "f", "i", "r", "m">>,
     <<"b", "o", "o", "k", " ", "i", "t">>,
     <<"o", "k">>,
     <<"s", "u", "r", "e">>,
     <<"n", "o">> }

\* the affirmative replies of _handle_confirmation
AffirmativeWords ==
  { <<"y", "e", "s">>,
     <<"c", "o", "n", "f", "i", "r", "m">>,
     <<"b", "o", "o", "k", " ", "i", "t">>,
     <<"o", "k">>,
     <<"s", "u", "r", "e">> }

\* a bug the list could have: an entry left out
CancelWordsShort ==
  { <<"c", "a", "n", "c", "e", "l">>,
     <<"n", "e", "v", "e", "r", "m", "i", "n", "d">> }

\* the cancel replies of _handle_confirmation
CancelWords ==
  { <<"n", "o">>,
     <<"c", "a", "n", "c", "e", "l">>,
     <<"n", "e", "v", "e", "r", "m", "i", "n", "d">> }

str_today == <<"t", "o", "d", "a", "y">>
str_tomorrow == <<"t", "o", "m", "o", "r", "r", "o", "w">>
str_next == <<"n", "e", "x", "t">>
str_2pm == <<"2", ":", "0", "0", " ", "P", "M">>

\* ------------------------------------------------------------ inputs
\* messages of the booking flow: empty, a plain greeting, a booking request,
\* a price question, a service, a name, an affirmative and a cancel
Messages ==
  { <<>>,
      <<"h", "i">>,
      <<"B", "o", "o", "k">>,
      <<"p", "r", "i", "c", "e">>,
      <<"d", "y", "e">>,
      <<"J", "a", "n", "e", " ", "D", "o", "e">>,
      <<"Y", "E", "S">>,
      <<"N", "o">> }

\* messages for the service selection step
ServiceMessages ==
  { <<"B", "o", "o", "k">>,
      <<"h", "a", "i", "r", "c", "u", "t", " ", "a", "n", "d", " ", "s", "t", "y", "l", "e">>,
      <<"S", "t", "y", "l", "e">>,
      <<"t", "e", "l", "e", "k", "i", "n", "e", "s", "i", "s">>,
      <<"N", "o">> }

\* messages sent through generate_response
ReplyMessages ==
  { <<"h", "i">>,
    <<"B", "o", "o", "k">>,
    <<"d", "y", "e">>,
    <<"Y", "E", "S">>,
    <<"N", "o">> }

\* conversation_steps of test_booking_flow, each step widened to a class of messages
conversation_steps ==
  << { <<"B", "o", "o", "k">>,
       <<"I", "'", "d", " ", "l", "i", "k", "e", " ", "t", "o", " ", "b", "o", "o", "k", " ", "a", "n", " ", "a", "p", "p", "o", "i", "n", "t", "m", "e", "n", "t">>,
       <<"S", "c", "h", "e", "d", "u", "l", "e">> },
     { <<"h", "a", "i", "r", "c", "u", "t">>,
       <<"H", "a", "i", "r", " ", "C", "u", "t">>,
       <<"d", "y", "e">> },
     { <<"t", "o", "m", "o", "r", "r", "o", "w">>,
       <<>>,
       <<"N", "o">> },
     { <<"J", "a", "n", "e", " ", "D", "o", "e">>,
       <<>>,
       <<"Y", "E", "S">> },
     { <<"j", "a", "n", "e", "@", "e", "x", "a", "m", "p", "l", "e", ".", "c", "o", "m">>,
       <<>>,
       <<"B", "o", "o", "k">> },
     { <<"y", "e", "s">>,
       <<"c", "o", "n", "f", "i", "r", "m">>,
       <<"b", "o", "o", "k", " ", "i", "t">>,
       <<"o", "k">>,
       <<"s", "u", "r", "e">> } >>

GatewayOutcomes ==
  {"ok", "lookup_raises", "upsert_raises", "appointment_raises", "appointment_falsy"}

\* the days table of _get_next_day_of_week: position - 1 is the weekday number
days ==
  << <<"m", "o", "n", "d", "a", "y">>,
     <<"t", "u", "e", "s", "d", "a", "y">>,
     <<"w", "e", "d", "n", "e", "s", "d", "a", "y">>,
     <<"t", "h", "u", "r", "s", "d", "a", "y">>,
     <<"f", "r", "i", "d", "a", "y">>,
     <<"s", "a", "t", "u", "r", "d", "a", "y">>,
     <<"s", "u", "n", "d", "a", "y">> >>

\* full month names accepted by strptime's %B (matched case-insensitively)
MonthNames ==
  << <<"j", "a", "n", "u", "a", "r", "y">>,
     <<"f", "e", "b", "r", "u", "a", "r", "y">>,
     <<"m", "a", "r", "c", "h">>,
     <<"a", "p", "r", "i", "l">>,
     <<"m", "a", "y">>,
     <<"j", "u", "n", "e">>,
     <<"j", "u", "l", "y">>,
     <<"a", "u", "g", "u", "s", "t">>,
     <<"s", "e", "p", "t", "e", "m", "b", "e", "r">>,
     <<"o", "c", "t", "o", "b", "e", "r">>,
     <<"n", "o", "v", "e", "m", "b", "e", "r">>,
     <<"d", "e", "c", "e", "m", "b", "e", "r">> >>

\* days per month in 1900, the year strptime assumes when the format has none
DaysInMonth == <<31, 28, 31, 30, 31, 30, 31, 31, 30, 31, 30, 31>>

Digits ==
  ("0" :> 0) @@ ("1" :> 1) @@ ("2" :> 2) @@ ("3" :> 3) @@ ("4" :> 4) @@ ("5" :> 5) @@ ("6" :> 6) @@ ("7" :> 7) @@ ("8" :> 8) @@ ("9" :> 9)

str_none == <<"N", "o", "n", "e">>
str_am == <<"a", "m">>
str_pm == <<"p", "m">>

\* f"{value}" of an optional string
Fmt(opt) == IF opt = <<>> THEN str_none ELSE opt[1]

IsSpace(c) == c \in {" ", "\t", "\n"}

\* str.startswith
StartsWith(s, prefix) ==
  Len(s) >= Len(prefix) /\ SubSeq(s, 1, Len(prefix)) = prefix

\* the positions where a word of s starts
WordStarts(s) == {i \in 1..Len(s) : ~IsSpace(s[i]) /\ (i = 1 \/ IsSpace(s[i - 1]))}

\* the last position of the word of s that starts at i
WordStop(s, i) ==
  CHOOSE e \in i..Len(s) :
    /\ \A j \in i..e : ~IsSpace(s[j])
    /\ (e = Len(s) \/ IsSpace(s[e + 1]))

\* the k-th smallest element of a set of numbers
Nth(set, k) == CHOOSE i \in set : Cardinality({j \in set : j < i}) = k - 1

\* the word of s that starts at i
WordAt(s, i) == SubSeq(s, i, WordStop(s, i))

\* str.split(): the maximal runs of non-whitespace characters, in order
Split(s) == [k \in 1..Cardinality(WordStarts(s)) |-> WordAt(s, Nth(WordStarts(s), k))]

\* the value of a string of one or two decimal digits, -1 for anything else
Number(s) ==
  IF Len(s) = 1 /\ s[1] \in DOMAIN Digits THEN Digits[s[1]]
  ELSE IF Len(s) = 2 /\ s[1] \in DOMAIN Digits /\ s[2] \in DOMAIN Digits
       THEN 10 * Digits[s[1]] + Digits[s[2]]
  ELSE -1

\* the position of word in a table of words, 0 when it is not there
IndexOf(table, word) ==
  IF \E i \in 1..Len(table) : table[i] = word
  THEN CHOOSE i \in 1..Len(table) : table[i] = word
  ELSE 0

\* a bug the roll-over could have: today counts as the next occurrence
DaysAheadToday(target_day, current_weekday) ==
  IF target_day - current_weekday < 0
  THEN [days_ahead |-> target_day - current_weekday + 7]
  ELSE [days_ahead |-> target_day - current_weekday]

\* the tail of _get_next_day_of_week: days from current_weekday to target_day,
\* a week when they are the same day
DaysAhead(target_day, current_weekday) ==
  IF target_day - current_weekday <= 0
  THEN [days_ahead |-> target_day - current_weekday + 7]
  ELSE [days_ahead |-> target_day - current_weekday]

\* ConversationManager._get_next_day_of_week: days ahead of today, or a ValueError
get_next_day_of_week(day_name, current_weekday) ==
  IF IndexOf(days, Lower(day_name)) = 0 THEN [raised |-> "ValueError"]
  ELSE DaysAhead(IndexOf(days, Lower(day_name)) - 1, current_weekday)

\* a month number and a day number as a date of 1900, the year strptime assumes
MonthDay(month, day) ==
  IF month = 0 \/ day < 1 THEN [raised |-> "ValueError"]
  ELSE IF day > DaysInMonth[month] THEN [raised |-> "ValueError"]
  ELSE [month |-> month, day |-> day]

\* datetime.strptime(date_str, "%B %d"): month name, whitespace, day of month
strptime_month_day(date_str) ==
  IF \/ Len(date_str) = 0
     \/ IsSpace(date_str[1]) \/ IsSpace(date_str[Len(date_str)])
     \/ Cardinality(WordStarts(date_str)) # 2
  THEN [raised |-> "ValueError"]
  ELSE MonthDay(IndexOf(MonthNames, Lower(Split(date_str)[1])), Number(Split(date_str)[2]))

\* the position of the colon of a clock reading with exactly one colon
ColonAt(clock) == CHOOSE i \in 1..Len(clock) : clock[i] = ":"

\* an hour of the 12-hour clock, a minute and AM/PM as a time of day
TimeOfDay(hour12, minute, pm) ==
  IF hour12 < 1 \/ hour12 > 12 \/ minute < 0 \/ minute > 59
  THEN [raised |-> "ValueError"]
  ELSE [hour |-> (hour12 % 12) + (IF pm THEN 12 ELSE 0), minute |-> minute]

\* "%I:%M" followed by "%p"
ClockTime(clock, ampm) ==
  IF \/ Cardinality({i \in 1..Len(clock) : clock[i] = ":"}) # 1
     \/ ampm \notin {str_am, str_pm}
  THEN [raised |-> "ValueError"]
  ELSE TimeOfDay(Number(SubSeq(clock, 1, ColonAt(clock) - 1)),
                 Number(SubSeq(clock, ColonAt(clock) + 1, Len(clock))),
                 ampm = str_pm)

\* datetime.strptime(time_str, "%I:%M %p").time()
strptime_time(time_str) ==
  IF \/ Len(time_str) = 0
     \/ IsSpace(time_str[1]) \/ IsSpace(time_str[Len(time_str)])
     \/ Cardinality(WordStarts(time_str)) # 2
  THEN [raised |-> "ValueError"]
  ELSE ClockTime(Split(time_str)[1], Lower(Split(time_str)[2]))

\* the explicit-date branch: this year, or next year when that day is already past
ExplicitDate(md, now) ==
  IF "raised" \in DOMAIN md THEN md
  ELSE [month |-> md.month, day |-> md.day,
        next_year |-> (md.month < now.month \/ (md.month = now.month /\ md.day <= now.day))]

\* the date branches of _parse_datetime
ParseDate(date_str, now) ==
  IF Lower(date_str) = str_today THEN [days_ahead |-> 0]
  ELSE IF Lower(date_str) = str_tomorrow THEN [days_ahead |-> 1]
  ELSE IF StartsWith(Lower(date_str), str_next)
  THEN IF Cardinality(WordStarts(date_str)) < 2 THEN [raised |-> "IndexError"]
       ELSE get_next_day_of_week(Split(Lower(date_str))[2], now.weekday)
  ELSE ExplicitDate(strptime_month_day(date_str), now)

\* datetime.combine(date.date(), time); the date is worked out first, so its
\* exception is the one that leaves the try block, else that of the time
Combine(date, time) ==
  IF "raised" \in DOMAIN date THEN date
  ELSE IF "raised" \in DOMAIN time THEN time
  ELSE [date |-> date, time |-> time]

\* the try block of _parse_datetime on optional strings: None has no lower()
\* and is no argument for strptime
parse_datetime_body(date_opt, time_opt, now) ==
  IF date_opt = <<>> THEN [raised |-> "AttributeError"]
  ELSE Combine(ParseDate(date_opt[1], now),
               IF time_opt = <<>> THEN [raised |-> "TypeError"]
               ELSE strptime_time(time_opt[1]))

\* a bug the except clause could have: the exception is re-raised as it came
ReraiseUnchanged(outcome) == outcome

\* the except clause of _parse_datetime: whatever was raised becomes
\* ValueError("Invalid date or time format")
ReraiseValueError(outcome) ==
  IF "raised" \in DOMAIN outcome THEN [raised |-> "ValueError"] ELSE outcome

\* ConversationManager._parse_datetime; now = [weekday, month, day] of datetime.now()
parse_datetime(date_opt, time_opt, now) ==
  ReraiseValueError(parse_datetime_body(date_opt, time_opt, now))
\* ------------------------------------------------------------ state
VARIABLES
  conversations,      \* ConversationManager.conversations: phone -> ConversationState
  db_service,         \* ConversationManager.db_service is configured
  db_clients,         \* phones that have a client row behind the gateway
  appointment_count,  \* appointments created behind the gateway
  result,             \* what the last process_message call returned (or raised)
  gateway_calls,      \* gateway methods invoked by the last process_message call
  reply,              \* <<text>> returned by the last generate_response call
  llm_called,         \* the last generate_response call reached the OpenAI completion
  last,               \* the last operation, its arguments and the record it found
  sent,               \* messages the test loop over conversation_steps has sent
  alone,              \* phone -> the record it would have had its own calls been the only ones
  threads,            \* handler threads inside an affirmative confirmation: where each one is
  HELICM_API_TOKEN,       \* payments.HELICM_API_TOKEN, read from the environment at import
  HELICM_WEBHOOK_SECRET,  \* payments.HELICM_WEBHOOK_SECRET, read from the environment at import
  transactions,       \* the transaction table behind DatabaseService: id -> status
  hook,               \* the last payments request, its answer and the DatabaseService calls it made
  conversation_history,  \* VoiceService.conversation_history: call_sid -> list of messages
  openai_client,      \* VoiceService.openai_client is configured
  voice               \* the last VoiceService operation and what it returned

\* the state of the SMS conversation subsystem
smsvars ==
  <<conversations, db_service, db_clients, appointment_count, result,
    gateway_calls, reply, llm_called, last, sent, alone, threads>>

\* the state of the payments subsystem
paymentvars == <<HELICM_API_TOKEN, HELICM_WEBHOOK_SECRET, transactions, hook>>

\* the state of the voice subsystem
voicevars == <<conversation_history, openai_client, voice>>

vars == <<smsvars, paymentvars, voicevars>>

\* ConversationState.__init__
ConversationState(phone_number) ==
  [phone_number |-> phone_number, step |-> "greeting", selected_service |-> None,
   selected_date |-> <<>>, selected_time |-> <<>>, temp_data |-> <<>>]

\* a reply text: its fixed wording and the values formatted into it
Resp(text, args) == [text |-> text, args |-> args]

\* response: None
NoResponse == Resp("None", <<>>)

\* ConversationManager._format_services: one "name - price" line per catalog entry
format_services ==
  [i \in 1..(2 * Len(ServiceKeys)) |->
     IF i % 2 = 1 THEN services[ServiceKeys[(i + 1) \div 2]].name
                  ELSE services[ServiceKeys[i \div 2]].price]

\* ConversationManager._handle_greeting
handle_greeting(state, message) ==
  LET message_lower == Lower(message) IN
  IF AnyWordIn(GreetingBookWords, message_lower)
  THEN [state  |-> [state EXCEPT !.step = "service_selection"],
        result |-> [response |-> Resp("Great! I'd be happy to help you book an appointment. Here are our services", format_services),
                    step |-> "service_selection", requires_booking |-> TRUE]]
  ELSE IF AnyWordIn(GreetingHelloWords, message_lower)
  THEN [state  |-> state,
        result |-> [response |-> NoResponse, step |-> "greeting", requires_booking |-> FALSE]]
  ELSE [state  |-> state,
        result |-> [response |-> NoResponse, step |-> "greeting", requires_booking |-> FALSE]]

\* a bug the loop could have: no break, so the last matching key wins
LastMatch(message_lower) ==
  LET hits == {i \in 1..Len(service_mapping) : Contains(service_mapping[i][1], message_lower)}
  IN IF hits = {} THEN None
     ELSE service_mapping[CHOOSE i \in hits : \A j \in hits : i >= j][2]

\* the loop over service_mapping.items(): first key, in declaration order,
\* that is a substring of the lower-cased message
FirstMatch(message_lower) ==
  LET hits == {i \in 1..Len(service_mapping) : Contains(service_mapping[i][1], message_lower)}
  IN IF hits = {} THEN None
     ELSE service_mapping[CHOOSE i \in hits : \A j \in hits : i <= j][2]

\* ConversationManager._handle_service_selection
handle_service_selection(state, message) ==
  LET selected_service == FirstMatch(Lower(message)) IN
  IF selected_service # None
  THEN [state  |-> [state EXCEPT !.selected_service = selected_service, !.step = "time_selection"],
        result |-> [response |-> Resp("Perfect! You've selected",
                                      <<services[selected_service].name, services[selected_service].price>>),
                    step |-> "time_selection", selected_service |-> selected_service,
                    requires_booking |-> TRUE]]
  ELSE [state  |-> state,
        result |-> [response |-> Resp("I didn't recognize that service. Here are our available services", format_services),
                    step |-> "service_selection", requires_booking |-> TRUE]]

\* a bug the handler could have: it names the wrong next step
handle_time_selection_back(state, message) ==
  [state  |-> [state EXCEPT !.selected_date = <<str_tomorrow>>, !.selected_time = <<str_2pm>>,
                            !.step = "service_selection"],
   result |-> [response |-> Resp("Great! I have", <<str_2pm, str_tomorrow>>),
               step |-> "client_info", selected_date |-> <<str_tomorrow>>,
               selected_time |-> <<str_2pm>>, requires_booking |-> TRUE]]

\* ConversationManager._handle_time_selection
handle_time_selection(state, message) ==
  [state  |-> [state EXCEPT !.selected_date = <<str_tomorrow>>, !.selected_time = <<str_2pm>>,
                            !.step = "client_info"],
   result |-> [response |-> Resp("Great! I have", <<str_2pm, str_tomorrow>>),
               step |-> "client_info", selected_date |-> <<str_tomorrow>>,
               selected_time |-> <<str_2pm>>, requires_booking |-> TRUE]]

\* the value a handler hands back when it falls off its end (Python's None)
ReturnsNone == [none |-> TRUE]

\* a bug the capture of the name could have: the step advances before the email
store_name_advancing(state, message) ==
  [state  |-> [state EXCEPT !.temp_data = ("name" :> message) @@ state.temp_data,
                            !.step = "confirmation"],
   result |-> [response |-> Resp("Nice to meet you", <<message>>),
               step |-> "client_info", requires_booking |-> TRUE]]

\* _handle_client_info, first branch: the message becomes the name
store_name(state, message) ==
  [state  |-> [state EXCEPT !.temp_data = ("name" :> message) @@ state.temp_data],
   result |-> [response |-> Resp("Nice to meet you", <<message>>),
               step |-> "client_info", requires_booking |-> TRUE]]

\* a bug the capture of the email could have: a text without "@" is refused
store_email_validated(state, message) ==
  IF ~Contains(<<"@">>, message)
  THEN [state  |-> state,
        result |-> [response |-> Resp("Please provide a valid email address", <<>>),
                    step |-> "client_info", requires_booking |-> TRUE]]
  ELSE [state  |-> [state EXCEPT !.temp_data = ("email" :> message) @@ state.temp_data,
                                 !.step = "confirmation"],
        result |-> [response |-> Resp("Perfect! Let me confirm your appointment", <<>>),
                    step |-> "confirmation", requires_booking |-> TRUE]]

\* _handle_client_info, second branch: the message becomes the email and the
\* summary is built from services[state.selected_service]
store_email(state, message) ==
  LET stored == [state EXCEPT !.temp_data = ("email" :> message) @@ state.temp_data,
                              !.step = "confirmation"]
  IN IF state.selected_service \notin DOMAIN services
     THEN [state |-> stored, result |-> [raised |-> "KeyError"]]
     ELSE [state  |-> stored,
           result |-> [response |-> Resp("Perfect! Let me confirm your appointment",
                                         <<services[state.selected_service].name,
                                           Fmt(state.selected_date), Fmt(state.selected_time),
                                           state.temp_data["name"], message,
                                           services[state.selected_service].price>>),
                       step |-> "confirmation", requires_booking |-> TRUE]]

\* ConversationManager._handle_client_info; with both fields present no
\* branch is taken and the method returns None
handle_client_info(state, message) ==
  IF "name" \notin DOMAIN state.temp_data THEN store_name(state, message)
  ELSE IF "email" \notin DOMAIN state.temp_data THEN store_email(state, message)
  ELSE [state |-> state, result |-> ReturnsNone]

\* a bug the confirmation could have: no except branch, the exception escapes
ErrorEscapes(state, clients, count, calls, error) ==
  [state |-> state, db_clients |-> clients, appointment_count |-> count, calls |-> calls,
   result |-> [raised |-> error]]

\* a bug the except branch could have: the failure is stored as the record's step
ErrorResultStored(state, clients, count, calls, error) ==
  [state |-> [state EXCEPT !.step = "error"], db_clients |-> clients,
   appointment_count |-> count, calls |-> calls,
   result |-> [response |-> Resp("I apologize, but there was an error booking your appointment. Please call us directly to book.", <<>>),
               step |-> "error", requires_booking |-> FALSE, error |-> error]]

\* a bug the except branch could have: the booking is closed although it failed
ErrorResultCompleting(state, clients, count, calls, error) ==
  [state |-> [state EXCEPT !.step = "completed"], db_clients |-> clients,
   appointment_count |-> count, calls |-> calls,
   result |-> [response |-> Resp("I apologize, but there was an error booking your appointment. Please call us directly to book.", <<>>),
               step |-> "error", requires_booking |-> FALSE, error |-> error]]

\* the error result of the except branch of _handle_confirmation
ErrorResult(state, clients, count, calls, error) ==
  [state |-> state, db_clients |-> clients, appointment_count |-> count, calls |-> calls,
   result |-> [response |-> Resp("I apologize, but there was an error booking your appointment. Please call us directly to book.", <<>>),
               step |-> "error", requires_booking |-> FALSE, error |-> error]]

\* a bug the upsert could have: a client row is created even when one was found
CallCreating(method, args) ==
  [method |-> IF method = "update_client" THEN "create_client" ELSE method, args |-> args]

\* one gateway invocation as recorded in gateway_calls
Call(method, args) == [method |-> method, args |-> args]

\* ConversationManager._handle_confirmation.  outcome says how the gateway
\* behaves during this call, now is datetime.now().
handle_confirmation(state, message, outcome, now) ==
  LET message_lower == Lower(message)
      phone         == state.phone_number
      quiet(s, r)   == [state |-> s, db_clients |-> db_clients,
                        appointment_count |-> appointment_count, calls |-> <<>>, result |-> r]
  IN
  IF message_lower \in AffirmativeWords THEN
    IF "name" \notin DOMAIN state.temp_data \/ "email" \notin DOMAIN state.temp_data
    THEN ErrorResult(state, db_clients, appointment_count, <<>>, "KeyError")
    ELSE IF ~db_service
    THEN quiet(state,
               [response |-> Resp("I apologize, but I'm having trouble accessing our booking system. Please call us directly to book your appointment.", <<>>),
                step |-> "error", requires_booking |-> FALSE,
                error |-> "Database service not available"])
    ELSE
    LET client_data == <<state.temp_data["name"], state.temp_data["email"]>>
        lookup      == Call("get_client_by_phone", <<phone>>)
        found       == phone \in db_clients
        upsert      == IF found THEN Call("update_client", <<phone, client_data>>)
                                ELSE Call("create_client", <<client_data>>)
        clients1    == db_clients \cup {phone}
        parsed      == parse_datetime(state.selected_date, state.selected_time, now)
    IN
    IF outcome = "lookup_raises"
    THEN ErrorResult(state, db_clients, appointment_count, <<lookup>>, "gateway error")
    ELSE IF outcome = "upsert_raises"
    THEN ErrorResult(state, db_clients, appointment_count, <<lookup, upsert>>, "gateway error")
    ELSE IF "raised" \in DOMAIN parsed
    THEN ErrorResult(state, clients1, appointment_count, <<lookup, upsert>>,
                     "Invalid date or time format")
    ELSE IF state.selected_service \notin DOMAIN services
    THEN ErrorResult(state, clients1, appointment_count, <<lookup, upsert>>, "KeyError")
    ELSE
    LET service_info == services[state.selected_service]
        create       == Call("create_appointment",
                             <<phone, parsed, service_info.name, service_info.duration>>)
        calls        == <<lookup, upsert, create>>
    IN
    IF outcome = "appointment_raises"
    THEN ErrorResult(state, clients1, appointment_count, calls, "gateway error")
    ELSE IF outcome = "appointment_falsy"
    THEN ErrorResult(state, clients1, appointment_count, calls, "Failed to create appointment")
    ELSE [state |-> [state EXCEPT !.step = "completed"],
          db_clients |-> clients1, appointment_count |-> appointment_count + 1,
          calls |-> calls,
          result |-> [response |-> Resp("Excellent! Your appointment is confirmed",
                                        <<Fmt(state.selected_date), Fmt(state.selected_time)>>),
                      step |-> "completed", booking_confirmed |-> TRUE,
                      requires_booking |-> FALSE,
                      appointment_id |-> appointment_count + 1]]
  ELSE IF message_lower \in CancelWords
  THEN quiet([state EXCEPT !.step = "greeting"],
             [response |-> Resp("No problem! Your booking has been cancelled.", <<>>),
              step |-> "greeting", booking_cancelled |-> TRUE, requires_booking |-> FALSE])
  ELSE quiet(state,
             [response |-> Resp("I didn't understand. Please reply 'YES' to confirm your booking, or 'NO' to cancel.", <<>>),
              step |-> "confirmation", requires_booking |-> TRUE])

\* a bug the store could have: one record shared by every number
get_conversation_shared(phone_number) ==
  IF conversations # <<>>
  THEN conversations[CHOOSE q \in DOMAIN conversations : TRUE]
  ELSE ConversationState(phone_number)

\* ConversationManager.get_conversation: the record of the number, created on demand
get_conversation(phone_number) ==
  IF phone_number \in DOMAIN conversations
  THEN conversations[phone_number]
  ELSE ConversationState(phone_number)

\* a bug the dispatch could have: a record past confirmation is confirmed again
DispatchConfirming(state, message, outcome, now) ==
  LET plain(h) == [state |-> h.state, db_clients |-> db_clients,
                   appointment_count |-> appointment_count, calls |-> <<>>,
                   result |-> h.result]
  IN CASE state.step = "greeting"          -> plain(handle_greeting(state, message))
       [] state.step = "service_selection" -> plain(handle_service_selection(state, message))
       [] state.step = "time_selection"    -> plain(handle_time_selection(state, message))
       [] state.step = "client_info"       -> plain(handle_client_info(state, message))
       [] OTHER                            -> handle_confirmation(state, message, outcome, now)

\* the per-step dispatch of process_message
Dispatch(state, message, outcome, now) ==
  LET plain(h) == [state |-> h.state, db_clients |-> db_clients,
                   appointment_count |-> appointment_count, calls |-> <<>>,
                   result |-> h.result]
  IN CASE state.step = "greeting"          -> plain(handle_greeting(state, message))
       [] state.step = "service_selection" -> plain(handle_service_selection(state, message))
       [] state.step = "time_selection"    -> plain(handle_time_selection(state, message))
       [] state.step = "client_info"       -> plain(handle_client_info(state, message))
       [] state.step = "confirmation"      -> handle_confirmation(state, message, outcome, now)
       [] OTHER                            -> plain(handle_greeting(state, message))

\* a bug the general branch could have: it claims the booking flow
general_conversation_booking ==
  [response |-> NoResponse, requires_booking |-> TRUE, step |-> "greeting"]

\* the dict process_message returns for general conversation
general_conversation ==
  [response |-> NoResponse, requires_booking |-> FALSE, step |-> "greeting"]

\* the body of process_message once get_conversation has handed it the
\* record: the record it leaves, the gateway's state, and the dict it returns
\* ([raised |-> ...] when it raises instead)
process_state(state, message, outcome, now) ==
  LET message_lower      == Lower(message)
      is_booking_request == AnyWordIn(BookingRequestWords, message_lower)
  IN
  IF state.step # "greeting" \/ is_booking_request
  THEN LET d == Dispatch(state, message, outcome, now) IN
       IF "none" \in DOMAIN d.result
       THEN \* result.get(...) on None
            [d EXCEPT !.result = [raised |-> "AttributeError"]]
       ELSE IF "raised" \in DOMAIN d.result
       THEN d
       ELSE IF d.result.response # NoResponse
       THEN d
       ELSE [d EXCEPT !.result = [response |-> NoResponse, requires_booking |-> FALSE,
                                  step |-> d.state.step]]
  ELSE [state |-> state, db_clients |-> db_clients, appointment_count |-> appointment_count,
        calls |-> <<>>,
        result |-> general_conversation]

\* ConversationManager.process_message on the record of phone_number
process_message(phone_number, message, outcome, now) ==
  process_state(get_conversation(phone_number), message, outcome, now)

\* the handler threads of the server that may be inside a confirmation at once
Threads == {"worker-1", "worker-2"}

\* a thread that is handling no message
IdleThread ==
  [pc |-> "idle", phone |-> None, message |-> <<>>, found |-> <<>>, client |-> FALSE,
   calls |-> <<>>, count |-> 0, appointment_id |-> 0]

\* ------------------------------------------------------------ environment
\* datetime.now() as far as _parse_datetime reads it
Nows == {[weekday |-> 0, month |-> 3, day |-> 15], [weekday |-> 6, month |-> 12, day |-> 31]}

\* the gateway and the clock are consulted only by an affirmative message in
\* confirmation with a gateway configured; elsewhere they are not drawn
ConsultsGateway(phone_number, message) ==
  /\ db_service
  /\ get_conversation(phone_number).step = "confirmation"
  /\ Lower(message) \in AffirmativeWords

Env(phone_number, message) ==
  IF ConsultsGateway(phone_number, message)
  THEN {<<o, n>> : o \in (IF appointment_count < MaxAppointments
                          THEN GatewayOutcomes ELSE GatewayOutcomes \ {"ok"}),
                   n \in Nows}
  ELSE {<<"ok", CHOOSE n \in Nows : TRUE>>}

\* the record found by an operation, as an optional value
Before(phone_number) ==
  IF phone_number \in DOMAIN conversations THEN <<conversations[phone_number]>> ELSE <<>>

\* the record a number has when only its own calls are counted
AloneRecord(phone_number) ==
  IF phone_number \in DOMAIN alone THEN alone[phone_number] ELSE ConversationState(phone_number)

NoReturn == [returned |-> "None"]

\* the apology generate_response returns from its except branch
Fallback ==
  Resp("I'm sorry, I'm having trouble processing your request. Please call us directly for assistance.", <<>>)

\* ------------------------------------------------------------ operations
\* ConversationManager.process_message on (p, m): its effect on the store,
\* the gateway and the returned value
Process(p, m) ==
  \E e \in Env(p, m) :
    \E r \in {process_message(p, m, e[1], e[2])} :
    /\ conversations' = (p :> r.state) @@ conversations
    /\ alone' = (p :> process_state(AloneRecord(p), m, e[1], e[2]).state) @@ alone
    /\ db_clients' = r.db_clients
    /\ appointment_count' = r.appointment_count
    /\ result' = r.result
    /\ gateway_calls' = r.calls
    /\ reply' = <<>>
    /\ llm_called' = FALSE
    /\ last' = [op |-> "process_message", phone |-> p, message |-> m,
                before |-> Before(p), outcome |-> e[1], count |-> appointment_count]
    /\ UNCHANGED <<db_service, threads, paymentvars, voicevars>>

\* a direct call of ConversationManager.process_message
ProcessMessage(p, m) ==
  /\ Process(p, m)
  /\ UNCHANGED sent

\* one iteration of the loop of test_booking_flow / test_conversation
TestStep(p) ==
  /\ sent < Len(conversation_steps)
  /\ \E m \in conversation_steps[sent + 1] : Process(p, m)
  /\ sent' = sent + 1

\* LLMService.generate_response / generate_response_sync
GenerateResponse(p, m) ==
  \E e \in Env(p, m) :
    \E r \in {process_message(p, m, e[1], e[2])} :
    LET raised  == "raised" \in DOMAIN r.result
        direct  == ~raised /\ r.result.requires_booking
    IN
    \E llm \in (IF raised \/ direct THEN {"unused"} ELSE {"ok", "raises"}) :
    /\ conversations' = (p :> r.state) @@ conversations
    /\ alone' = (p :> process_state(AloneRecord(p), m, e[1], e[2]).state) @@ alone
    /\ db_clients' = r.db_clients
    /\ appointment_count' = r.appointment_count
    /\ result' = r.result
    /\ gateway_calls' = r.calls
    /\ reply' = IF raised THEN <<Fallback>>
                ELSE IF direct THEN <<r.result.response>>
                ELSE IF llm = "ok" THEN <<Resp("ai_response", <<>>)>>
                ELSE <<Fallback>>
    /\ llm_called' = (~raised /\ ~direct)
    /\ last' = [op |-> "generate_response", phone |-> p, message |-> m,
                before |-> Before(p), outcome |-> e[1], count |-> appointment_count]
    /\ UNCHANGED <<db_service, sent, threads, paymentvars, voicevars>>

\* a bug clear_conversation could have: the whole store is emptied
ClearEveryConversation(p) ==
  /\ conversations' = [q \in {} |-> ConversationState(q)]
  /\ alone' = [q \in {} |-> ConversationState(q)]
  /\ result' = NoReturn
  /\ gateway_calls' = <<>>
  /\ reply' = <<>>
  /\ llm_called' = FALSE
  /\ last' = [op |-> "clear_conversation", phone |-> p, message |-> <<>>,
              before |-> Before(p), outcome |-> "ok", count |-> appointment_count]
  /\ UNCHANGED <<db_service, db_clients, appointment_count, sent, threads, paymentvars, voicevars>>

\* ConversationManager.clear_conversation
ClearConversation(p) ==
  /\ conversations' = [q \in DOMAIN conversations \ {p} |-> conversations[q]]
  /\ alone' = [q \in DOMAIN alone \ {p} |-> alone[q]]
  /\ result' = NoReturn
  /\ gateway_calls' = <<>>
  /\ reply' = <<>>
  /\ llm_called' = FALSE
  /\ last' = [op |-> "clear_conversation", phone |-> p, message |-> <<>>,
              before |-> Before(p), outcome |-> "ok", count |-> appointment_count]
  /\ UNCHANGED <<db_service, db_clients, appointment_count, sent, threads, paymentvars, voicevars>>

\* ConversationManager.__init__, with or without a db_service
InitFor(senders) ==
  /\ conversations = [q \in {} |-> ConversationState(q)]
  /\ db_service \in BOOLEAN
  /\ db_clients \in SUBSET senders
  /\ (~db_service => db_clients = {})
  /\ appointment_count = 0
  /\ result = NoReturn
  /\ gateway_calls = <<>>
  /\ reply = <<>>
  /\ llm_called = FALSE
  /\ last = [op |-> "init", phone |-> None, message |-> <<>>, before |-> <<>>,
             outcome |-> "ok", count |-> 0]
  /\ sent = 0
  /\ alone = [q \in {} |-> ConversationState(q)]
  /\ threads = [t \in Threads |-> IdleThread]

\* ------------------------------------------------------------ payments
\* os.getenv gives None or a string, possibly the empty one
EnvValues == {None, "", "whsec_live"}

\* `not value` of Python for the configuration strings
Unset(value) == value \in {None, ""}

\* hmac.new(key, body, hashlib.sha256).digest(): one digest per key and body
hmac_sha256(key, body) == [key |-> key, body |-> body]

\* base64.b64encode(digest).decode()
b64encode(digest) == [encoding |-> "base64", digest |-> digest]

\* hasher.hexdigest()
hexdigest(digest) == [encoding |-> "hex", digest |-> digest]

\* a header text that is no signature at all
Text(characters) ==
  [encoding |-> characters, digest |-> hmac_sha256("", [json |-> "invalid"])]

\* a header value is <<prefix, rest>>; the empty string is <<"">> and a
\* header that was not sent is <<>> (headers.get gives None)
NoHeader == <<>>

EmptyHeader == <<"">>

Truthy(value) == value # NoHeader /\ value # EmptyHeader

\* the header names handle_helcim_webhook looks up, in the order of its `or` chain
SignatureHeaderNames ==
  <<"webhook-signature", "x-helcim-signature", "x-webhook-signature",
    "authorization", "x-authorization">>

\* request.headers.get(name)
HeaderGet(headers, name) == IF name \in DOMAIN headers THEN headers[name] ELSE NoHeader

\* indexes of the looked-up headers that carry a truthy value
TruthyHeaders(headers) ==
  {i \in 1..Len(SignatureHeaderNames) : Truthy(HeaderGet(headers, SignatureHeaderNames[i]))}

\* the `or` chain: the first truthy value, else the value of the last operand
signature_header(headers) ==
  IF TruthyHeaders(headers) = {}
  THEN HeaderGet(headers, SignatureHeaderNames[Len(SignatureHeaderNames)])
  ELSE HeaderGet(headers, SignatureHeaderNames[
         CHOOSE i \in TruthyHeaders(headers) : \A j \in TruthyHeaders(headers) : i <= j])

\* signature_header[7:] when it starts with 'Bearer '
remove_bearer(header) == IF header[1] = "Bearer " THEN <<"", header[2]>> ELSE header

\* hmac.compare_digest on two str: TypeError when one holds a non-ASCII character
compare_digest(a, b) ==
  IF a[2].encoding = "non-ascii" \/ b[2].encoding = "non-ascii" THEN "TypeError"
  ELSE IF a = b THEN "True" ELSE "False"

\* the base64 attempt, then the hex attempt when the first did not verify;
\* an exception inside an attempt counts as not verified
signature_verified(secret, raw_body, header) ==
  \/ compare_digest(<<"", b64encode(hmac_sha256(secret, raw_body))>>, header) = "True"
  \/ compare_digest(<<"", hexdigest(hmac_sha256(secret, raw_body))>>, header) = "True"

\* an HTTPException, or the dict a route returns (status_code 200)
Http(status_code, detail) == [status_code |-> status_code, detail |-> detail, db_calls |-> <<>>]

\* one DatabaseService invocation
DbCall(method, transaction_id, status) ==
  [method |-> method, transaction_id |-> transaction_id, status |-> status]

\* ACTION 4 of handle_helcim_webhook: request.json() and the status update
process_event(body) ==
  IF body.json = "invalid"
  THEN Http(500, "Error processing webhook")
  ELSE [status_code |-> 200, detail |-> body.status,
        db_calls |-> <<DbCall("update_transaction_status", body.transactionId,
                              IF body.status = "APPROVED" THEN "completed" ELSE "failed")>>]

\* a bug the webhook could have: the event is processed whatever the signature
handle_helcim_webhook_unverified(request) == process_event(request.body)

\* payments.handle_helcim_webhook: the answer and the DatabaseService calls.
\* The 403 is raised inside the try block and caught by its except clause.
handle_helcim_webhook(request) ==
  IF Unset(HELICM_WEBHOOK_SECRET)
  THEN Http(500, "Webhook secret not configured.")
  ELSE IF ~Truthy(signature_header(request.headers))
  THEN Http(400, "Webhook signature header missing. Please check Helcim webhook configuration.")
  ELSE IF ~signature_verified(HELICM_WEBHOOK_SECRET, request.body,
                              remove_bearer(signature_header(request.headers)))
  THEN Http(500, "Signature verification error: 403: Invalid signature. Please check webhook secret configuration.")
  ELSE process_event(request.body)

\* DatabaseService.update_transaction_status applied to the table
update_transaction_status(table, call) ==
  IF call.transaction_id \in DOMAIN table
  THEN [table EXCEPT ![call.transaction_id] = call.status]
  ELSE table

\* the table after the calls of one request (a request makes at most one)
AfterCalls(table, db_calls) ==
  IF db_calls = <<>> THEN table ELSE update_transaction_status(table, db_calls[1])

\* the booking a payment is started for
BookingIds == {"B1"}

\* f"MOCK_{bookingId}"
MockTransactionId(bookingId) == <<"MOCK_", bookingId>>

\* the JSON bodies Helcim posts, and one that is not JSON
Bodies ==
  {[json |-> "object", transactionId |-> MockTransactionId("B1"), status |-> "APPROVED"],
   [json |-> "object", transactionId |-> MockTransactionId("B1"), status |-> "DECLINED"],
   [json |-> "invalid"]}

\* the keys a sender may sign with
SenderKeys == {"whsec_live", "whsec_other"}

\* what a sender may put after the prefix of a signature header
Tokens(body) ==
  {b64encode(hmac_sha256(k, body)) : k \in SenderKeys}
    \cup {hexdigest(hmac_sha256(k, body)) : k \in SenderKeys}
    \cup {hexdigest(hmac_sha256("whsec_live", [json |-> "invalid"]))}
    \cup {Text("garbage"), Text("non-ascii")}

\* the values of the first looked-up header
HeaderValues(body) ==
  {EmptyHeader} \cup {<<prefix, t>> : prefix \in {"", "Bearer ", "bearer "}, t \in Tokens(body)}

\* the header sets of the requests: none, one header, or two with the first
\* one empty, wrong or right
HeaderSets(body) ==
  {<<>>}
    \cup {("webhook-signature" :> v) : v \in HeaderValues(body)}
    \cup {(SignatureHeaderNames[i] :> <<"", t>>) :
            i \in 2..Len(SignatureHeaderNames),
            t \in {b64encode(hmac_sha256("whsec_live", body)), Text("garbage")}}
    \cup {("webhook-signature" :> v) @@
          ("authorization" :> <<"Bearer ", hexdigest(hmac_sha256("whsec_live", body))>>) :
            v \in {EmptyHeader, <<"", Text("garbage")>>}}

Requests == UNION {{[headers |-> h, body |-> b] : h \in HeaderSets(b)} : b \in Bodies}

\* a payments request answered: the table after its DatabaseService calls
Answer(op, request, answer) ==
  /\ transactions' = AfterCalls(transactions, answer.db_calls)
  /\ hook' = [op |-> op, request |-> request, before |-> transactions,
              status_code |-> answer.status_code, detail |-> answer.detail,
              db_calls |-> answer.db_calls]
  /\ UNCHANGED <<HELICM_API_TOKEN, HELICM_WEBHOOK_SECRET, smsvars, voicevars>>

\* POST /payments/initiate
InitiatePayment(bookingId) ==
  /\ IF Unset(HELICM_API_TOKEN)
     THEN /\ transactions' = transactions
          /\ hook' = [op |-> "initiate_payment", request |-> bookingId, before |-> transactions,
                      status_code |-> 500, detail |-> "Helcim API token is not configured.",
                      db_calls |-> <<>>]
     ELSE /\ transactions' = (MockTransactionId(bookingId) :> "pending") @@ transactions
          /\ hook' = [op |-> "initiate_payment", request |-> bookingId, before |-> transactions,
                      status_code |-> 200, detail |-> "processing",
                      db_calls |-> <<DbCall("create_pending_transaction",
                                            MockTransactionId(bookingId), "pending")>>]
  /\ UNCHANGED <<HELICM_API_TOKEN, HELICM_WEBHOOK_SECRET, smsvars, voicevars>>

\* POST /webhooks/helcim
HandleHelcimWebhook(request) ==
  \E answer \in {handle_helcim_webhook(request)} :
    Answer("handle_helcim_webhook", request, answer)

\* POST /webhook/helcim, which forwards to handle_helcim_webhook
HandleLegacyHelcimWebhook(request) ==
  \E answer \in {handle_helcim_webhook(request)} :
    Answer("handle_legacy_helcim_webhook", request, answer)

\* the payments module once imported, configured by the environment values
InitPayments(values) ==
  /\ HELICM_API_TOKEN \in values
  /\ HELICM_WEBHOOK_SECRET \in values
  /\ transactions = [t \in {} |-> "pending"]
  /\ hook = [op |-> "init", request |-> <<>>, before |-> transactions,
             status_code |-> 0, detail |-> "", db_calls |-> <<>>]


\* ------------------------------------------------------------ voice
\* the keyword lists of the fallback replies of _generate_ai_response, in the
\* order of its if/elif chain, each with the reply it selects
FallbackReplies ==
  << [words |-> << <<"a", "p", "p", "o", "i", "n", "t", "m", "e", "n", "t">>,
                   <<"b", "o", "o", "k">>,
                   <<"s", "c", "h", "e", "d", "u", "l", "e">>,
                   <<"r", "e", "s", "e", "r", "v", "e">>,
                   <<"h", "e", "a", "d", " ", "s", "p", "a">> >>,
      reply |-> "I'd love to help you book a head spa treatment!"],
     [words |-> << <<"p", "r", "i", "c", "e">>,
                   <<"c", "o", "s", "t">>,
                   <<"h", "o", "w", " ", "m", "u", "c", "h">>,
                   <<"f", "e", "e">> >>,
      reply |-> "Our head spa treatments start at $99 for the Signature"],
     [words |-> << <<"h", "o", "u", "r">>,
                   <<"o", "p", "e", "n">>,
                   <<"t", "i", "m", "e">>,
                   <<"w", "h", "e", "n">> >>,
      reply |-> "Glo Head Spa is open Monday through Saturday from 9AM to 7PM"],
     [words |-> << <<"c", "a", "n", "c", "e", "l">>,
                   <<"r", "e", "s", "c", "h", "e", "d", "u", "l", "e">>,
                   <<"c", "h", "a", "n", "g", "e">> >>,
      reply |-> "I can help you reschedule or cancel your appointment."] >>

\* the last keyword list of the chain, tried after the 'what' and 'head spa' test
FallbackServiceWords ==
  << <<"s", "e", "r", "v", "i", "c", "e">>,
     <<"w", "h", "a", "t", " ", "d", "o", " ", "y", "o", "u">>,
     <<"o", "f", "f", "e", "r">> >>

\* the fallback reply _generate_ai_response picks for what the caller said
fallback_response(user_speech) ==
  IF \E i \in 1..Len(FallbackReplies) : AnyWordIn(FallbackReplies[i].words, Lower(user_speech))
  THEN FallbackReplies[CHOOSE i \in 1..Len(FallbackReplies) :
                         /\ AnyWordIn(FallbackReplies[i].words, Lower(user_speech))
                         /\ \A j \in 1..(i - 1) :
                              ~AnyWordIn(FallbackReplies[j].words, Lower(user_speech))].reply
  ELSE IF /\ Contains(<<"w", "h", "a", "t">>, Lower(user_speech))
          /\ Contains(<<"h", "e", "a", "d", " ", "s", "p", "a">>, Lower(user_speech))
  THEN "A head spa is a relaxing Japanese scalp treatment"
  ELSE IF AnyWordIn(FallbackServiceWords, Lower(user_speech))
  THEN "Glo Head Spa specializes in Japanese head spa treatments!"
  ELSE "Thank you for your inquiry."

\* one entry of a conversation history
Message(role, content) == [role |-> role, content |-> content]

\* list[-n:]
LastN(list, n) == IF Len(list) > n THEN SubSeq(list, Len(list) - n + 1, Len(list)) ELSE list

\* self.conversation_history[call_sid], the empty list when the call has none yet
history_of(call_sid) ==
  IF call_sid \in DOMAIN conversation_history THEN conversation_history[call_sid] ELSE <<>>

\* VoiceService._generate_ai_response on the history of the call: the history
\* it leaves, the messages it sent to OpenAI and the reply it returns.
\* completion says how the OpenAI call went: "ok", "raises", or "unused" when
\* there is no client.  Only the OpenAI branch cuts the history to 20.
generate_ai_response(history, user_speech, completion) ==
  IF completion = "ok"
  THEN [history  |-> LastN(Append(Append(history, Message("user", user_speech)),
                                  Message("assistant", "ai_response")), 20),
        messages |-> LastN(Append(history, Message("user", user_speech)), 10),
        response |-> "ai_response"]
  ELSE [history  |-> Append(Append(history, Message("user", user_speech)),
                            Message("assistant", fallback_response(user_speech))),
        messages |-> IF completion = "raises"
                     THEN LastN(Append(history, Message("user", user_speech)), 10)
                     ELSE <<>>,
        response |-> fallback_response(user_speech)]

\* the longest history the model follows a call to
MaxHistory == 24

\* a caller's utterance reaching _generate_ai_response (from process_speech)
GenerateAiResponse(call_sid, user_speech) ==
  \E completion \in (IF openai_client THEN {"ok", "raises"} ELSE {"unused"}) :
    \E r \in {generate_ai_response(history_of(call_sid), user_speech, completion)} :
      /\ Len(r.history) <= MaxHistory
      /\ conversation_history' = (call_sid :> r.history) @@ conversation_history
      /\ voice' = [op |-> "_generate_ai_response", call_sid |-> call_sid,
                   user_speech |-> user_speech, completion |-> completion,
                   response |-> r.response, sent |-> Len(r.messages)]
      /\ UNCHANGED <<openai_client, smsvars, paymentvars>>

\* VoiceService.cleanup_conversation
CleanupConversation(call_sid) ==
  /\ conversation_history' =
       [c \in DOMAIN conversation_history \ {call_sid} |-> conversation_history[c]]
  /\ voice' = [op |-> "cleanup_conversation", call_sid |-> call_sid,
               user_speech |-> <<>>, completion |-> "unused", response |-> None, sent |-> 0]
  /\ UNCHANGED <<openai_client, smsvars, paymentvars>>

\* VoiceService.__init__, with or without an OpenAI API key
InitVoice(clients) ==
  /\ conversation_history = [c \in {} |-> <<>>]
  /\ openai_client \in clients
  /\ voice = [op |-> "init", call_sid |-> None, user_speech |-> <<>>,
              completion |-> "unused", response |-> None, sent |-> 0]

\* the calls in progress
CallSids == {"CA1"}

\* what the caller says
Utterances == { <<"W", "h", "a", "t", " ", "d", "o", " ", "y", "o", "u", " ", "o", "f", "f", "e", "r", "?">> }

\* a voice service with or without an OpenAI client, and no conversation
InitCalls == InitFor({}) /\ InitPayments({None}) /\ InitVoice(BOOLEAN)

\* utterances of the call, and the cleanup when it ends
NextVoice ==
  \/ \E c \in CallSids, u \in Utterances : GenerateAiResponse(c, u)
  \/ \E c \in CallSids : CleanupConversation(c)

SpecVoice == InitCalls /\ [][NextVoice]_vars
\* one phone number sending any of the messages
Sender == {"+15550001"}

\* one manager and the payments module without its environment values
Init == InitFor(Sender) /\ InitPayments({None}) /\ InitVoice({FALSE})

\* direct calls of process_message, and clear_conversation
Next ==
  \/ \E p \in Sender, m \in Messages : ProcessMessage(p, m)
  \/ \E p \in Sender : ClearConversation(p)

Spec == Init /\ [][Next]_vars

\* the same operations on the messages of the service selection step
NextService ==
  \/ \E p \in Sender, m \in ServiceMessages : ProcessMessage(p, m)
  \/ \E p \in Sender : ClearConversation(p)

SpecService == Init /\ [][NextService]_vars

\* the messages arriving through LLMService.generate_response
NextReply ==
  \/ \E p \in Sender, m \in ReplyMessages : GenerateResponse(p, m)
  \/ \E p \in Sender : ClearConversation(p)

SpecReply == Init /\ [][NextReply]_vars

\* the test loop sending its six messages to a fresh manager
NextTest == \E p \in Sender : TestStep(p)

SpecTest == Init /\ [][NextTest]_vars

\* the payment routes: payments started and webhooks received
NextPayments ==
  \/ \E b \in BookingIds : InitiatePayment(b)
  \/ \E r \in Requests : HandleHelcimWebhook(r)
  \/ \E r \in Requests : HandleLegacyHelcimWebhook(r)

\* no conversation yet, and the payments module under any environment values
InitPaymentRoutes == InitFor({}) /\ InitPayments(EnvValues) /\ InitVoice({FALSE})

SpecPayments == InitPaymentRoutes /\ [][NextPayments]_vars

\* ConversationManager.get_conversation_summary: <<>> for None, else <<the dict>>
get_conversation_summary(phone_number) ==
  IF phone_number \notin DOMAIN conversations
  THEN <<>>
  ELSE <<[step             |-> conversations[phone_number].step,
          selected_service |-> conversations[phone_number].selected_service,
          selected_date    |-> conversations[phone_number].selected_date,
          selected_time    |-> conversations[phone_number].selected_time,
          client_info      |-> None,
          temp_data        |-> conversations[phone_number].temp_data]>>

\* two phone numbers texting the same manager
Phones == {"+15550001", "+15550002"}

\* the messages that take a number through a booking and its confirmation
PhoneMessages ==
  { <<"B", "o", "o", "k">>,
    <<"d", "y", "e">>,
    <<"y", "e", "s">> }

\* a manager with a gateway that knows the first number as a client
InitPhones ==
  /\ InitFor(Phones)
  /\ db_service
  /\ db_clients = {"+15550001"}
  /\ InitPayments({None})
  /\ InitVoice({FALSE})

\* messages of the two numbers in any interleaving, and clear_conversation
NextPhones ==
  \/ \E p \in Phones, m \in PhoneMessages : ProcessMessage(p, m)
  \/ \E p \in Phones : ClearConversation(p)

SpecPhones == InitPhones /\ [][NextPhones]_vars

\* the messages of a confirmation typed with spaces around them
ConfirmationMessages ==
  { <<"B", "o", "o", "k">>,
    <<"d", "y", "e">>,
    <<" ", "Y", "E", "S", " ">>,
    <<"N", "o", " ">>,
    <<"s", "u", "r", "e">> }

\* direct calls of process_message with these messages, and clear_conversation
NextConfirmation ==
  \/ \E p \in Sender, m \in ConfirmationMessages : ProcessMessage(p, m)
  \/ \E p \in Sender : ClearConversation(p)

SpecConfirmation == Init /\ [][NextConfirmation]_vars


\* ------------------------------------------------------------ dates
\* ConversationManager.update_conversation: the keyword arguments that name
\* an attribute of the record are assigned, the others are ignored
update_conversation(state, kwargs) ==
  [k \in DOMAIN state |-> IF k \in DOMAIN kwargs THEN kwargs[k] ELSE state[k]]

\* a caller of update_conversation storing a date or a time on the record
UpdateConversation(p, kwargs) ==
  /\ conversations' = (p :> update_conversation(get_conversation(p), kwargs)) @@ conversations
  /\ alone' = (p :> update_conversation(AloneRecord(p), kwargs)) @@ alone
  /\ result' = [returned |-> "state"]
  /\ gateway_calls' = <<>>
  /\ reply' = <<>>
  /\ llm_called' = FALSE
  /\ last' = [op |-> "update_conversation", phone |-> p, message |-> <<>>,
              before |-> Before(p), outcome |-> "ok", count |-> appointment_count,
              kwargs |-> kwargs]
  /\ UNCHANGED <<db_service, db_clients, appointment_count, sent, threads, paymentvars, voicevars>>

\* a direct call of ConversationManager._parse_datetime
ParseDatetime(date_opt, time_opt, now) ==
  /\ result' = parse_datetime(date_opt, time_opt, now)
  /\ gateway_calls' = <<>>
  /\ reply' = <<>>
  /\ llm_called' = FALSE
  /\ last' = [op |-> "_parse_datetime", phone |-> None, message |-> <<>>,
              before |-> <<>>, outcome |-> "ok", count |-> appointment_count,
              date_str |-> date_opt, time_str |-> time_opt, now |-> now]
  /\ UNCHANGED <<conversations, alone, db_service, db_clients, appointment_count, sent,
                 threads, paymentvars, voicevars>>

\* a direct call of ConversationManager._get_next_day_of_week on a day whose
\* weekday() is current_weekday
GetNextDayOfWeek(day_name, current_weekday) ==
  /\ result' = get_next_day_of_week(day_name, current_weekday)
  /\ gateway_calls' = <<>>
  /\ reply' = <<>>
  /\ llm_called' = FALSE
  /\ last' = [op |-> "_get_next_day_of_week", phone |-> None, message |-> <<>>,
              before |-> <<>>, outcome |-> "ok", count |-> appointment_count,
              day_name |-> day_name, weekday |-> current_weekday]
  /\ UNCHANGED <<conversations, alone, db_service, db_clients, appointment_count, sent,
                 threads, paymentvars, voicevars>>

\* date strings: relative days, "next" with and without a weekday, month and day
DateStrings ==
  { <<"n", "e", "x", "t">>,
    <<"n", "e", "x", "t", " ", "f", "u", "n", "d", "a", "y">>,
    <<"N", "e", "x", "t", " ", "M", "o", "n", "d", "a", "y">>,
    <<"M", "a", "r", "c", "h", " ", "1", "5">>,
    <<"M", "a", "r", "c", "h", " ", "3", "2">>,
    <<"M", "a", "r", "c", "h", " ", "1", "5", "t", "h">> }

\* time strings: a reading of the 12-hour clock, an hour out of range, no colon
TimeStrings ==
  { <<"2", ":", "0", "0", " ", "P", "M">>,
    <<"1", "4", ":", "0", "0", " ", "P", "M">>,
    <<"2", "p", "m">> }

\* an optional string: None or one of the strings
Optional(strings) == {<<>>} \cup {<<s>> : s \in strings}

\* the keyword arguments callers of update_conversation pass here
UpdateKwargs ==
  { [selected_date |-> <<str_next>>],
    [selected_date |-> << <<"M", "a", "r", "c", "h", " ", "3", "2">> >>],
    [selected_time |-> << <<"2", "p", "m">> >>],
    [nickname |-> <<"J">>] }

\* a manager with a gateway that has no client yet
InitDates ==
  /\ InitFor(Sender)
  /\ db_service
  /\ db_clients = {}
  /\ InitPayments({None})
  /\ InitVoice({FALSE})

\* a booking whose date or time is replaced through update_conversation, and
\* direct calls of the parser
NextDates ==
  \/ \E p \in Sender, m \in PhoneMessages : ProcessMessage(p, m)
  \/ \E p \in Sender, k \in UpdateKwargs : UpdateConversation(p, k)
  \/ \E d \in Optional(DateStrings), t \in Optional(TimeStrings), n \in Nows :
       ParseDatetime(d, t, n)

SpecDates == InitDates /\ [][NextDates]_vars

\* the names a caller may pass for a weekday: the seven of the table in
\* lower case and capitalised, and three that are not in it
DayNames ==
  {days[i] : i \in 1..7}
    \cup {<<"M", "o", "n", "d", "a", "y">>, <<"T", "U", "E", "S", "D", "A", "Y">>,
          <<"S", "u", "n", "d", "a", "y">>, <<"F", "r", "i", "D", "a", "y">>}
    \cup {<<"f", "u", "n", "d", "a", "y">>, <<"m", "o", "n">>, <<>>,
          <<"m", "o", "n", "d", "a", "y", "s">>}

\* the values of datetime.now().weekday()
Weekdays == 0..6

\* direct calls of _get_next_day_of_week on every day of the week
NextWeekdays == \E name \in DayNames, c \in Weekdays : GetNextDayOfWeek(name, c)

SpecWeekdays == InitDates /\ [][NextWeekdays]_vars

\* ------------------------------------------------------------ concurrent handlers
\* a defence the confirmation could have: no appointment is created for a
\* record another handler has completed meanwhile
created_appointment_once(state, count) ==
  IF state.step = "completed" THEN 0 ELSE count + 1

\* the id create_appointment returns when it succeeds: the model numbers the
\* appointments behind the gateway
created_appointment(state, count) == count + 1

\* the dict _handle_confirmation returns when create_appointment gave an id
confirmed_result(state, appointment) ==
  [response |-> Resp("Excellent! Your appointment is confirmed",
                     <<Fmt(state.selected_date), Fmt(state.selected_time)>>),
   step |-> "completed", booking_confirmed |-> TRUE, requires_booking |-> FALSE,
   appointment_id |-> appointment]

\* what the other subsystems and the callers' view keep during a handler's step
ThreadKeeps == <<db_service, reply, llm_called, sent, paymentvars, voicevars>>

\* a handler thread takes an affirmative message for a record it finds in
\* confirmation and runs up to its first gateway call
ThreadStart(t, p, m) ==
  /\ threads[t].pc = "idle"
  /\ ConsultsGateway(p, m)
  /\ {"name", "email"} \subseteq DOMAIN get_conversation(p).temp_data
  /\ appointment_count < MaxAppointments
  /\ threads' = [threads EXCEPT ![t] =
       [pc |-> "get_client_by_phone", phone |-> p, message |-> m, found |-> Before(p),
        client |-> FALSE, calls |-> <<>>, count |-> appointment_count,
        appointment_id |-> 0]]
  /\ UNCHANGED <<conversations, alone, db_clients, appointment_count, result,
                 gateway_calls, last, ThreadKeeps>>

\* get_client_by_phone returns to the thread
ThreadLookup(t) ==
  /\ threads[t].pc = "get_client_by_phone"
  /\ threads' = [threads EXCEPT ![t].pc = "upsert",
                                ![t].client = (threads[t].phone \in db_clients),
                                ![t].calls = <<Call("get_client_by_phone", <<threads[t].phone>>)>>]
  /\ UNCHANGED <<conversations, alone, db_clients, appointment_count, result,
                 gateway_calls, last, ThreadKeeps>>

\* the upsert call the thread makes after its lookup
Upsert(t) ==
  IF threads[t].client
  THEN Call("update_client",
            <<threads[t].phone, <<conversations[threads[t].phone].temp_data["name"],
                                  conversations[threads[t].phone].temp_data["email"]>> >>)
  ELSE Call("create_client",
            << <<conversations[threads[t].phone].temp_data["name"],
                 conversations[threads[t].phone].temp_data["email"]>> >>)

\* the thread's call returns with result r: what the caller and the log see
ThreadReturns(t, r, calls) ==
  /\ result' = r
  /\ gateway_calls' = calls
  /\ last' = [op |-> "process_message", phone |-> threads[t].phone,
              message |-> threads[t].message, before |-> threads[t].found,
              outcome |-> "ok", count |-> appointment_count]

\* update_client or create_client returns to the thread, which parses the
\* date and time of the record and looks up its service: on a failure it
\* returns the error result, else it goes on to create_appointment
ThreadUpsert(t) ==
  /\ threads[t].pc = "upsert"
  /\ db_clients' = db_clients \cup {threads[t].phone}
  /\ \E now \in Nows :
       \E state \in {conversations[threads[t].phone]} :
         \E parsed \in {parse_datetime(state.selected_date, state.selected_time, now)} :
           IF "raised" \in DOMAIN parsed \/ state.selected_service \notin DOMAIN services
           THEN /\ threads' = [threads EXCEPT ![t].pc = "done",
                                              ![t].calls = Append(threads[t].calls, Upsert(t))]
                /\ ThreadReturns(t, ErrorResult(state, db_clients, appointment_count, <<>>,
                                                IF "raised" \in DOMAIN parsed
                                                THEN "Invalid date or time format"
                                                ELSE "KeyError").result,
                                 Append(threads[t].calls, Upsert(t)))
           ELSE /\ threads' = [threads EXCEPT
                     ![t].pc = "create_appointment",
                     ![t].calls = Append(Append(threads[t].calls, Upsert(t)),
                                         Call("create_appointment",
                                              <<threads[t].phone, parsed,
                                                services[state.selected_service].name,
                                                services[state.selected_service].duration>>))]
                /\ UNCHANGED <<result, gateway_calls, last>>
  /\ UNCHANGED <<conversations, alone, appointment_count, ThreadKeeps>>

\* create_appointment returns an id to the thread, which sets the step to
\* completed and returns its result
ThreadCreate(t) ==
  /\ threads[t].pc = "create_appointment"
  /\ \E state \in {conversations[threads[t].phone]} :
       \E appointment \in {created_appointment(state, appointment_count)} :
         /\ appointment_count' = IF appointment = 0 THEN appointment_count ELSE appointment
         /\ conversations' = [conversations EXCEPT ![threads[t].phone].step =
                                IF appointment = 0 THEN @ ELSE "completed"]
         /\ alone' = [alone EXCEPT ![threads[t].phone].step =
                                IF appointment = 0 THEN @ ELSE "completed"]
         /\ ThreadReturns(t, IF appointment = 0
                             THEN ErrorResult(state, db_clients, appointment_count, <<>>,
                                              "Failed to create appointment").result
                             ELSE confirmed_result(state, appointment),
                          threads[t].calls)
         /\ threads' = [threads EXCEPT ![t].pc = "done", ![t].appointment_id = appointment]
  /\ UNCHANGED <<db_clients, ThreadKeeps>>

\* the affirmative messages the threads take
ThreadMessages == { <<"y", "e", "s">>, <<"O", "K">> }

\* messages handled one at a time, and affirmative messages handled by threads
\* that interleave at the gateway calls
NextThreads ==
  \/ \E p \in Sender, m \in PhoneMessages : ProcessMessage(p, m)
  \/ \E t \in Threads, p \in Sender, m \in ThreadMessages : ThreadStart(t, p, m)
  \/ \E t \in Threads : ThreadLookup(t)
  \/ \E t \in Threads : ThreadUpsert(t)
  \/ \E t \in Threads : ThreadCreate(t)

SpecThreads == InitDates /\ [][NextThreads]_vars
\* ------------------------------------------------------------ properties
\* the record the last call started from: the stored one, or a fresh one
Found == IF last.before = <<>> THEN ConversationState(last.phone) ELSE last.before[1]

\* the record the last call left
Left == conversations[last.phone]

Called == last.op = "process_message"

StepRank(step) ==
  CASE step = "greeting"          -> 0
    [] step = "service_selection" -> 1
    [] step = "time_selection"    -> 2
    [] step = "client_info"       -> 3
    [] step = "confirmation"      -> 4
    [] step = "completed"         -> 5

SaidCancel == Lower(last.message) \in
  { <<"n", "o">>,
    <<"c", "a", "n", "c", "e", "l">>,
    <<"n", "e", "v", "e", "r", "m", "i", "n", "d">> }

SaidYes == Lower(last.message) \in
  { <<"y", "e", "s">>,
    <<"c", "o", "n", "f", "i", "r", "m">>,
    <<"b", "o", "o", "k", " ", "i", "t">>,
    <<"o", "k">>,
    <<"s", "u", "r", "e">> }

SaidBook == \E w \in
  { <<"b", "o", "o", "k">>,
    <<"a", "p", "p", "o", "i", "n", "t", "m", "e", "n", "t">>,
    <<"s", "c", "h", "e", "d", "u", "l", "e">> } : Contains(w, Lower(last.message))

\* C1: every process_message call returns a dict with a step and a response
\* (possibly None); it never raises.
C1_NeverRaises ==
  Called => ("raised" \notin DOMAIN result /\ {"step", "response"} \subseteq DOMAIN result)

\* C2 as stated: the stored step never moves to an earlier stage, except by a
\* cancel in confirmation (to greeting) or on a fresh record.
C2_ForwardOnly ==
  (Called /\ last.before # <<>>) =>
    \/ StepRank(Left.step) >= StepRank(Found.step)
    \/ (Found.step = "confirmation" /\ SaidCancel /\ Left.step = "greeting")

\* C2 amended: the stored step never moves to an earlier stage, except by a
\* cancel in confirmation (to greeting), on a fresh record, or when a message
\* with book/appointment/schedule reaches a completed record, which starts a
\* new cycle at service_selection.
C2_ForwardOnlyOrNewCycle ==
  (Called /\ last.before # <<>>) =>
    \/ StepRank(Left.step) >= StepRank(Found.step)
    \/ (Found.step = "confirmation" /\ SaidCancel /\ Left.step = "greeting")
    \/ (Found.step = "completed" /\ SaidBook /\ Left.step = "service_selection")

C2_Witness ==
  Called /\ Found.step = "completed" /\ SaidBook /\ Left.step = "service_selection"

\* C3: when process_message returns a response text, generate_response
\* returns that text and does not call the OpenAI completion; the completion
\* is called only when the response is None.
C3_DirectReplyVerbatim ==
  (last.op = "generate_response" /\ "raised" \notin DOMAIN result) =>
    IF result.response # NoResponse
    THEN reply = <<result.response>> /\ ~llm_called
    ELSE llm_called

\* C4: the six messages of the happy path, sent to a fresh manager whose
\* gateway calls all succeed, end at completed with booking_confirmed and an
\* appointment id.
C4_HappyPath ==
  (sent = 6 /\ db_service /\ last.outcome = "ok") =>
    /\ Left.step = "completed"
    /\ "booking_confirmed" \in DOMAIN result /\ result.booking_confirmed = TRUE
    /\ "appointment_id" \in DOMAIN result /\ result.appointment_id \in Nat \ {0}

C4_Witness ==
  sent = 6 /\ db_service /\ last.outcome = "ok" /\ Left.step = "completed"

\* C5: an affirmative message in confirmation whose gateway is missing, raises
\* or returns a falsy appointment gives an error result with an apology, no
\* booking_confirmed, no exception, and the step does not become completed.
C5_PersistenceFailure ==
  (Called /\ Found.step = "confirmation" /\ SaidYes
     /\ (~db_service \/ last.outcome # "ok")) =>
    /\ "raised" \notin DOMAIN result
    /\ "error" \in DOMAIN result
    /\ result.response.text \in
         {"I apologize, but there was an error booking your appointment. Please call us directly to book.",
          "I apologize, but I'm having trouble accessing our booking system. Please call us directly to book your appointment."}
    /\ "booking_confirmed" \notin DOMAIN result
    /\ Left.step # "completed"

C5_Witness ==
  /\ Called /\ Found.step = "confirmation" /\ SaidYes
  /\ db_service /\ last.outcome = "appointment_raises"
  /\ "error" \in DOMAIN result

\* C6: no/cancel/nevermind in confirmation resets the step to greeting, calls
\* no gateway method, creates no appointment, and returns the cancellation
\* acknowledgement without booking_confirmed.
C6_Cancel ==
  (Called /\ Found.step = "confirmation" /\ SaidCancel) =>
    /\ Left.step = "greeting"
    /\ gateway_calls = <<>>
    /\ appointment_count = last.count
    /\ "booking_cancelled" \in DOMAIN result
    /\ result.response.text = "No problem! Your booking has been cancelled."
    /\ "booking_confirmed" \notin DOMAIN result

C6_Witness ==
  Called /\ Found.step = "confirmation" /\ SaidCancel /\ Left.step = "greeting"

\* C7: a record at confirmation or completed has a name and an email in
\* temp_data.
C7_ConfirmationHasNameAndEmail ==
  \A p \in DOMAIN conversations :
    conversations[p].step \in {"confirmation", "completed"} =>
      {"name", "email"} \subseteq DOMAIN conversations[p].temp_data

C7_Witness ==
  \E p \in DOMAIN conversations :
    /\ conversations[p].step = "confirmation"
    /\ {"name", "email"} \subseteq DOMAIN conversations[p].temp_data

NoPatternIn(message_lower) ==
  \A i \in 1..Len(service_mapping) : ~Contains(service_mapping[i][1], message_lower)

\* C8: a message with no synonym-table pattern, processed in
\* service_selection, leaves the step at service_selection and
\* selected_service unset, replies with the service list, and leaves the
\* record as it was.
C8_Reprompt ==
  (Called /\ Found.step = "service_selection" /\ NoPatternIn(Lower(last.message))) =>
    /\ Left.step = "service_selection"
    /\ Left.selected_service = None
    /\ result.response =
         Resp("I didn't recognize that service. Here are our available services", format_services)
    /\ Left = Found

\* C9: at greeting, a message without book/appointment/schedule (a plain
\* greeting, a price question, any other text) returns response None and
\* requires_booking false, and leaves the step and the record as they were.
C9_GreetingDefers ==
  (Called /\ Found.step = "greeting" /\ ~SaidBook) =>
    /\ "raised" \notin DOMAIN result
    /\ result.response = NoResponse
    /\ result.requires_booking = FALSE
    /\ result.step = "greeting"
    /\ Left = Found

C9_Witness ==
  /\ Called /\ Found.step = "greeting" /\ Found.selected_service # None
  /\ ~SaidBook /\ AnyWordIn(BookingRequestWords, Lower(last.message))
  /\ result.response = NoResponse /\ Left = Found

\* C10: in service_selection the service chosen is the one of the first
\* table entry, in declaration order, whose pattern is in the lower-cased
\* message; it is stored and the step becomes time_selection.
C10_FirstMatchWins ==
  (Called /\ Found.step = "service_selection") =>
    \A i \in 1..Len(service_mapping) :
      ( /\ Contains(service_mapping[i][1], Lower(last.message))
        /\ \A j \in 1..(i - 1) : ~Contains(service_mapping[j][1], Lower(last.message)) ) =>
        /\ Left.selected_service = service_mapping[i][2]
        /\ Left.step = "time_selection"
        /\ result.selected_service = service_mapping[i][2]

C10_Witness ==
  /\ Called /\ Found.step = "service_selection"
  /\ Cardinality({i \in 1..Len(service_mapping) :
                    Contains(service_mapping[i][1], Lower(last.message))}) > 1
  /\ Left.step = "time_selection"

\* the last request was a Helcim webhook, on either route
WebhookAnswered == hook.op \in {"handle_helcim_webhook", "handle_legacy_helcim_webhook"}

\* the signature header of the last webhook, without a leading 'Bearer '
SentSignature ==
  IF ~Truthy(signature_header(hook.request.headers)) THEN NoHeader
  ELSE IF signature_header(hook.request.headers)[1] = "Bearer "
  THEN <<"", signature_header(hook.request.headers)[2]>>
  ELSE signature_header(hook.request.headers)

\* the secret is set and the signature sent is the base64 or the hex HMAC of
\* the raw body under it
SignatureMatches ==
  /\ HELICM_WEBHOOK_SECRET \notin {None, ""}
  /\ SentSignature \in
       {<<"", [encoding |-> e,
               digest |-> [key |-> HELICM_WEBHOOK_SECRET, body |-> hook.request.body]]>> :
          e \in {"base64", "hex"}}

\* C13: a Helcim webhook, on either route, calls update_transaction_status
\* only when the signature header without its 'Bearer ' prefix is the base64
\* or hex HMAC-SHA256 of the raw body under the configured secret; with the
\* secret unset, the header missing or no match, no call is made and the
\* table of transactions is as it was.
C13_WebhookVerifiedBeforeUpdate ==
  WebhookAnswered =>
    /\ (hook.db_calls # <<>> => SignatureMatches)
    /\ (~SignatureMatches => (hook.db_calls = <<>> /\ transactions = hook.before))

C13_Witness ==
  /\ hook.op = "handle_legacy_helcim_webhook"
  /\ DOMAIN hook.request.headers = {"webhook-signature", "authorization"}
  /\ SentSignature[2].encoding = "hex"
  /\ hook.db_calls # <<>>
  /\ MockTransactionId("B1") \in DOMAIN hook.before
  /\ hook.before[MockTransactionId("B1")] = "pending"
  /\ transactions[MockTransactionId("B1")] = "completed"

\* a record as ConversationState.__init__ leaves it
IsFresh(record) ==
  /\ record.step = "greeting"
  /\ record.selected_service = None
  /\ record.selected_date = <<>>
  /\ record.selected_time = <<>>
  /\ record.temp_data = <<>>

\* what one step does when it is a clear_conversation, and what a
\* process_message that finds no record does
C11_Step ==
  \A p \in Phones :
    /\ (last'.op = "clear_conversation" /\ last'.phone = p) =>
         /\ get_conversation_summary(p)' = <<>>
         /\ \A q \in Phones \ {p} :
              get_conversation_summary(q)' = get_conversation_summary(q)
         /\ (p \notin DOMAIN conversations => conversations' = conversations)
    /\ (last'.op = "process_message" /\ last'.phone = p /\ p \notin DOMAIN conversations) =>
         /\ "raised" \notin DOMAIN result'
         /\ IsFresh([conversations'[p] EXCEPT !.step = "greeting"])
         /\ conversations'[p].step =
              IF AnyWordIn(GreetingBookWords, Lower(last'.message))
              THEN "service_selection" ELSE "greeting"

\* C11: after clear_conversation(p) the summary of p is None and the next
\* message of p is handled as on a fresh record (greeting, nothing selected,
\* no pending fields); clearing a number without a record changes nothing;
\* the records of the other numbers stay as they were.
C11_ClearConversation == [][C11_Step]_vars

C11_Witness ==
  /\ last.op = "clear_conversation"
  /\ last.before # <<>> /\ last.before[1].step = "completed"
  /\ \E q \in DOMAIN conversations : conversations[q].step = "confirmation"

\* C12: the store has one record per number, made by the first message of
\* that number, and a message of one number leaves every other record alone:
\* under any interleaving each record equals the one the number's own calls
\* alone produce.
C12_Isolated ==
  /\ conversations = alone
  /\ \A p \in DOMAIN conversations : conversations[p].phone_number = p
  /\ (Called => last.phone \in DOMAIN conversations)
  /\ (last.op = "init" => conversations = <<>>)

C12_Witness ==
  /\ Called
  /\ DOMAIN conversations = Phones
  /\ conversations["+15550001"].step = "completed"
  /\ conversations["+15550002"].step = "client_info"
  /\ conversations["+15550002"].temp_data # <<>>

\* C14: after a cycle has ended by a cancel or a completion, a new cycle that
\* has come to client_info (the record still holds the name and the email of
\* the earlier cycle) takes the next message as the new name, and the one
\* after it as the new email on the way to confirmation.
C14_RebookReachesConfirmation ==
  (Called /\ Found.step = "client_info"
     /\ {"name", "email"} \subseteq DOMAIN Found.temp_data) =>
    /\ "raised" \notin DOMAIN result
    /\ Left.step \in {"client_info", "confirmation"}
    /\ last.message \in {Left.temp_data["name"], Left.temp_data["email"]}

\* the message holds a word of the classification list
SaidBookingRelevant == \E w \in
  { <<"b", "o", "o", "k">>,
    <<"a", "p", "p", "o", "i", "n", "t", "m", "e", "n", "t">>,
    <<"s", "c", "h", "e", "d", "u", "l", "e">>,
    <<"h", "a", "i", "r", "c", "u", "t">>,
    <<"c", "o", "l", "o", "r">>,
    <<"s", "t", "y", "l", "e">>,
    <<"s", "e", "r", "v", "i", "c", "e">>,
    <<"p", "r", "i", "c", "e">>,
    <<"c", "o", "s", "t">> } : Contains(w, Lower(last.message))

\* the reply of the greeting step that lists the catalog
ListsCatalog ==
  /\ "raised" \notin DOMAIN result
  /\ result.response =
       Resp("Great! I'd be happy to help you book an appointment. Here are our services",
            format_services)
  /\ result.requires_booking = TRUE

\* C15 as stated: at greeting every message with a word of the
\* classification list (book, appointment, schedule, haircut, color, style,
\* service, price, cost) is answered with the catalog and moves the step to
\* service_selection.
C15_RelevantStartsBooking ==
  (Called /\ Found.step = "greeting" /\ SaidBookingRelevant) =>
    (ListsCatalog /\ Left.step = "service_selection")

\* C15 amended: at greeting a message with book, appointment or schedule is
\* answered with the catalog and moves the step to service_selection; a
\* message that is on the classification list only through haircut, color,
\* style, service, price or cost gets response None and leaves the record at
\* greeting.
C15_BookWordsStartBooking ==
  (Called /\ Found.step = "greeting" /\ SaidBookingRelevant) =>
    IF SaidBook
    THEN ListsCatalog /\ Left = [Found EXCEPT !.step = "service_selection"]
    ELSE /\ "raised" \notin DOMAIN result
         /\ result.response = NoResponse /\ result.requires_booking = FALSE
         /\ Left = Found

C15_Witness ==
  /\ Called /\ Found.step = "greeting" /\ SaidBook
  /\ ListsCatalog /\ Left.step = "service_selection"

\* str.strip of a message
Trim(s) ==
  IF \A i \in 1..Len(s) : IsSpace(s[i]) THEN <<>>
  ELSE SubSeq(s, CHOOSE i \in 1..Len(s) : ~IsSpace(s[i]) /\ \A j \in 1..(i - 1) : IsSpace(s[j]),
                 CHOOSE i \in 1..Len(s) : ~IsSpace(s[i]) /\ \A j \in (i + 1)..Len(s) : IsSpace(s[j]))

\* C16: in confirmation a message whose trimmed, lower-cased form is yes,
\* confirm, book it, ok or sure is handled as a confirmation, and one whose
\* trimmed, lower-cased form is no, cancel or nevermind as a cancel.
C16_TrimmedConfirmation ==
  (Called /\ Found.step = "confirmation") =>
    /\ Trim(Lower(last.message)) \in
         {<<"y", "e", "s">>, <<"c", "o", "n", "f", "i", "r", "m">>,
          <<"b", "o", "o", "k", " ", "i", "t">>, <<"o", "k">>, <<"s", "u", "r", "e">>}
         => ("booking_confirmed" \in DOMAIN result \/ "error" \in DOMAIN result)
    /\ Trim(Lower(last.message)) \in
         {<<"n", "o">>, <<"c", "a", "n", "c", "e", "l">>,
          <<"n", "e", "v", "e", "r", "m", "i", "n", "d">>}
         => ("booking_cancelled" \in DOMAIN result /\ Left.step = "greeting")

\* C17: a record whose step is greeting has no selected service.
C17_ServiceOnlyPastSelection ==
  \A p \in DOMAIN conversations :
    conversations[p].step = "greeting" => conversations[p].selected_service = None

\* C18: a process_message call invokes gateway methods only when it finds the
\* record in confirmation and the message is affirmative; at every other
\* step, and for a cancel or an unrecognized message in confirmation, it
\* calls none and creates no appointment.
C18_GatewayOnlyOnConfirmation ==
  Called =>
    IF Found.step = "confirmation" /\ SaidYes
    THEN \A i \in 1..Len(gateway_calls) :
           gateway_calls[i].method \in
             {"get_client_by_phone", "update_client", "create_client", "create_appointment"}
    ELSE gateway_calls = <<>> /\ appointment_count = last.count

C18_Witness ==
  /\ Called /\ Found.step = "confirmation" /\ SaidYes
  /\ Len(gateway_calls) = 3
  /\ appointment_count = last.count + 1

\* the gateway calls of one step, for the number p that sent the message
C19_Step ==
  \A p \in Sender :
    (last'.op = "process_message" /\ last'.phone = p /\ gateway_calls' # <<>>) =>
      /\ Len(gateway_calls') <= 3
      /\ gateway_calls'[1] = [method |-> "get_client_by_phone", args |-> <<p>>]
      /\ Len(gateway_calls') >= 2 =>
           gateway_calls'[2].method =
             (IF p \in db_clients THEN "update_client" ELSE "create_client")
      /\ Len(gateway_calls') = 3 =>
           /\ gateway_calls'[3].method = "create_appointment"
           /\ gateway_calls'[3].args[1] = p
           /\ \E k \in DOMAIN services :
                /\ k = conversations[p].selected_service
                /\ gateway_calls'[3].args[3] = services[k].name
                /\ gateway_calls'[3].args[4] = services[k].duration
      /\ (last'.outcome \in {"ok", "appointment_raises", "appointment_falsy"}
            => Len(gateway_calls') = 3)
      /\ ("booking_confirmed" \in DOMAIN result' => Len(gateway_calls') = 3)

\* C19: an affirmative message in confirmation with a gateway configured
\* makes the calls in this order: one lookup by phone; update_client when a
\* client was found, else create_client, never both; then one
\* create_appointment with the client's id and the name and duration of the
\* selected service, never before the upsert has returned.
C19_GatewayOrder == [][C19_Step]_vars

C19_Witness ==
  /\ Called /\ Len(gateway_calls) = 3
  /\ gateway_calls[2].method = "update_client"
  /\ gateway_calls[3].method = "create_appointment"
  /\ "booking_confirmed" \in DOMAIN result

\* C20: in client_info a record without a name stores the message verbatim
\* as the name and stays in client_info; a record with a name and without an
\* email stores the message verbatim as the email and moves to confirmation.
C20_ClientInfoCapture ==
  (Called /\ Found.step = "client_info") =>
    /\ "name" \notin DOMAIN Found.temp_data =>
         /\ Left = [Found EXCEPT !.temp_data = ("name" :> last.message) @@ Found.temp_data]
         /\ result.step = "client_info"
    /\ ("name" \in DOMAIN Found.temp_data /\ "email" \notin DOMAIN Found.temp_data) =>
         /\ Left = [Found EXCEPT !.temp_data = ("email" :> last.message) @@ Found.temp_data,
                                 !.step = "confirmation"]
         /\ result.step = "confirmation"

C20_Witness ==
  /\ Called /\ Found.step = "client_info"
  /\ DOMAIN Found.temp_data = {"name"}
  /\ Found.temp_data["name"] = <<>>
  /\ Left.step = "confirmation"
  /\ Left.temp_data["email"] = last.message
  /\ ~Contains(<<"@">>, last.message)


\* ------------------------------------------------------------ results and failures
\* the last call was process_message and it returned a dict
Returned == Called /\ "raised" \notin DOMAIN result

\* the last call was an affirmative message in confirmation that ended in an
\* error result
FailedConfirmation ==
  Returned /\ Found.step = "confirmation" /\ SaidYes /\ result.step = "error"

\* C21 as stated: after every process_message call that returns, the step of
\* the returned dict equals the step stored in the record of the number.
C21_ResultStepIsStoredStep ==
  Returned => result.step = Left.step

\* C21 amended: the step of the returned dict equals the stored step, except
\* after a failed affirmative confirmation, where the dict says "error" and
\* the stored step is still confirmation.
C21_ResultStepIsStoredStepUnlessFailed ==
  Returned =>
    IF FailedConfirmation
    THEN result.step = "error" /\ Left.step = "confirmation"
    ELSE result.step = Left.step

C21_Witness ==
  FailedConfirmation /\ Left.step = "confirmation" /\ result.step # Left.step

\* C22: a failed affirmative confirmation leaves the record as it found it
\* (step confirmation, service, date, time, name and email), the next
\* affirmative message of the number calls the gateway again when there is
\* one, the next cancel message resets the record to greeting, and no record
\* ever has the step "error".
C22_Step ==
  /\ \A p \in DOMAIN conversations' : conversations'[p].step # "error"
  /\ FailedConfirmation' => (Left' = Found' /\ Left'.step = "confirmation")
  /\ (FailedConfirmation /\ Called' /\ last'.phone = last.phone) =>
       /\ (SaidYes' /\ db_service) =>
            (gateway_calls' # <<>> /\ gateway_calls'[1].method = "get_client_by_phone")
       /\ SaidCancel' => (Returned' /\ Left'.step = "greeting")

C22_FailedConfirmationKeepsRecord == [][C22_Step]_vars

C22_Witness ==
  /\ FailedConfirmation /\ Left = Found /\ last.outcome = "appointment_raises"
  /\ Len(gateway_calls) = 3 /\ gateway_calls[2].method = "update_client"

\* C23: a record's step becomes completed only in an affirmative confirmation
\* of its number whose create_appointment call returned an appointment id; a
\* manager without a db_service has no completed record.
C23_Step ==
  /\ ~db_service => \A p \in DOMAIN conversations' : conversations'[p].step # "completed"
  /\ \A p \in Sender :
       ( /\ p \in DOMAIN conversations' /\ conversations'[p].step = "completed"
         /\ (p \notin DOMAIN conversations \/ conversations[p].step # "completed") ) =>
         /\ db_service
         /\ Called' /\ last'.phone = p /\ SaidYes' /\ Found'.step = "confirmation"
         /\ Len(gateway_calls') = 3
         /\ gateway_calls'[3].method = "create_appointment"
         /\ gateway_calls'[3].args[1] = p
         /\ "appointment_id" \in DOMAIN result' /\ result'.appointment_id \in Nat \ {0}
         /\ appointment_count' = appointment_count + 1

C23_CompletedOnlyByAppointment == [][C23_Step]_vars

C23_Witness ==
  /\ Called /\ Left.step = "completed" /\ Found.step = "confirmation"
  /\ "appointment_id" \in DOMAIN result /\ appointment_count = 1

\* C24: one call creates at most one appointment, and only by taking the
\* record of its number from confirmation to completed; a message to a record
\* that is not in confirmation, completed included, creates none, so every
\* appointment uses up one entry into confirmation.
C24_Step ==
  /\ appointment_count' <= appointment_count + 1
  /\ appointment_count' > appointment_count =>
       /\ Called' /\ Found'.step = "confirmation" /\ Left'.step = "completed"
       /\ Len(gateway_calls') = 3 /\ gateway_calls'[3].args[1] = last'.phone
  /\ (Called' /\ Found'.step # "confirmation") =>
       (appointment_count' = appointment_count /\
        \A i \in 1..Len(gateway_calls') : gateway_calls'[i].method # "create_appointment")

C24_OneAppointmentPerConfirmation == [][C24_Step]_vars

C24_Witness ==
  /\ Called /\ Found.step = "completed" /\ SaidYes /\ appointment_count = 1
  /\ Left.step = "completed" /\ gateway_calls = <<>>

\* C26: every entry of the synonym table is effective: in service_selection
\* a message equal to the pattern of an entry selects the service of that
\* entry.
C26_EveryPatternEffective ==
  (Called /\ Found.step = "service_selection") =>
    \A i \in 1..Len(service_mapping) :
      Lower(last.message) = service_mapping[i][1] =>
        (Returned /\ Left.selected_service = service_mapping[i][2])

\* C27: POST /webhooks/helcim answers 500 when the secret is unset, 400 when
\* no signature header is sent, and 403 "Invalid signature" when the header
\* sent is neither the base64 nor the hex HMAC of the body.
C27_InvalidSignatureIs403 ==
  hook.op = "handle_helcim_webhook" =>
    IF HELICM_WEBHOOK_SECRET \in {None, ""} THEN hook.status_code = 500
    ELSE IF SentSignature = NoHeader THEN hook.status_code = 400
    ELSE ~SignatureMatches =>
           /\ hook.status_code = 403
           /\ hook.detail = "Invalid signature. Please check webhook secret configuration."

\* the date strings no branch of the parser accepts: "next" with no weekday,
\* an unknown weekday, a day the month does not have, a day with a suffix
UnparseableDates ==
  { <<"n", "e", "x", "t">>,
    <<"n", "e", "x", "t", " ", "f", "u", "n", "d", "a", "y">>,
    <<"M", "a", "r", "c", "h", " ", "3", "2">>,
    <<"M", "a", "r", "c", "h", " ", "1", "5", "t", "h">> }

\* the time strings that are no reading of the 12-hour clock
UnparseableTimes ==
  { <<"1", "4", ":", "0", "0", " ", "P", "M">>,
    <<"2", "p", "m">> }

\* an optional string that is None or one of the strings given
NoneOrIn(opt, strings) == opt = <<>> \/ opt[1] \in strings

\* C29: _parse_datetime raises nothing but ValueError, and raises it for
\* every unparseable date or time; an affirmative message in confirmation
\* whose stored date or time is unparseable returns an error result, makes no
\* appointment and leaves the stored step at confirmation.
C29_ParseFailureIsValueError ==
  /\ last.op = "_parse_datetime" =>
       /\ "raised" \in DOMAIN result => result.raised = "ValueError"
       /\ ( \/ NoneOrIn(last.date_str, UnparseableDates)
            \/ NoneOrIn(last.time_str, UnparseableTimes) ) =>
            "raised" \in DOMAIN result
  /\ ( /\ Called /\ Found.step = "confirmation" /\ SaidYes
       /\ \/ NoneOrIn(Found.selected_date, UnparseableDates)
          \/ NoneOrIn(Found.selected_time, UnparseableTimes) ) =>
       /\ Returned
       /\ result.step = "error" /\ "error" \in DOMAIN result
       /\ last.outcome \notin {"lookup_raises", "upsert_raises"} =>
            result.error = "Invalid date or time format"
       /\ Left.step = "confirmation"
       /\ appointment_count = last.count
       /\ \A i \in 1..Len(gateway_calls) : gateway_calls[i].method # "create_appointment"

C29_Witness ==
  /\ Called /\ Found.step = "confirmation" /\ SaidYes
  /\ Found.selected_date = <<str_next>>
  /\ Returned /\ result.step = "error"
  /\ result.error = "Invalid date or time format"
  /\ Left.step = "confirmation"

\* C30: for a current weekday c and a target weekday t named by the
\* argument, _get_next_day_of_week returns the day d days ahead with
\* 1 <= d <= 7, (c + d) mod 7 = t, and d = 7 exactly when t = c.
C30_NextDayOfWeek ==
  last.op = "_get_next_day_of_week" =>
    \A t \in 0..6 :
      Lower(last.day_name) = days[t + 1] =>
        /\ "days_ahead" \in DOMAIN result
        /\ result.days_ahead \in 1..7
        /\ (last.weekday + result.days_ahead) % 7 = t
        /\ (result.days_ahead = 7) <=> (t = last.weekday)

C30_Witness ==
  /\ last.op = "_get_next_day_of_week"
  /\ last.weekday = 6 /\ last.day_name = <<"S", "u", "n", "d", "a", "y">>
  /\ "days_ahead" \in DOMAIN result /\ result.days_ahead = 7

\* C28: after every _generate_ai_response call, whichever path produced the
\* reply, the stored history of the call holds at most 20 messages.
C28_HistoryAtMost20 ==
  voice.op = "_generate_ai_response" =>
    Len(conversation_history[voice.call_sid]) <= 20

\* C25: two handler threads that took affirmative messages for the same
\* number while its record was in confirmation, with no appointment made
\* between their two reads of the step, both create an appointment when they
\* finish: two appointments for one booking.
C25_ConcurrentConfirmationsBothCreate ==
  \A t1 \in Threads, t2 \in Threads :
    ( /\ t1 # t2
      /\ threads[t1].pc = "done" /\ threads[t2].pc = "done"
      /\ threads[t1].phone = threads[t2].phone
      /\ threads[t1].count = threads[t2].count ) =>
      /\ threads[t1].found[1].step = "confirmation"
      /\ threads[t2].found[1].step = "confirmation"
      /\ threads[t1].appointment_id \in Nat \ {0}
      /\ threads[t2].appointment_id \in Nat \ {0}
      /\ threads[t1].appointment_id # threads[t2].appointment_id
      /\ appointment_count >= threads[t1].count + 2

C25_Witness ==
  /\ threads["worker-1"].pc = "done" /\ threads["worker-2"].pc = "done"
  /\ threads["worker-1"].phone = threads["worker-2"].phone
  /\ threads["worker-1"].count = 0 /\ threads["worker-2"].count = 0
  /\ threads["worker-1"].found[1].step = "confirmation"
  /\ threads["worker-2"].found[1].step = "confirmation"
  /\ appointment_count = 2
  /\ conversations[threads["worker-1"].phone].step = "completed"
  /\ "create_client" \in {threads["worker-2"].calls[i].method : i \in 1..3}
====
